---------------------------- MODULE Spec2Model ----------------------------
(***************************************************************************)
(* A model of mindlogger_data_export: the response and options grammars    *)
(* (parsers.py), the processor chain (processors.py, mindlogger.py), the   *)
(* row/struct expansion (mindlogger.py), the scored output (outputs.py),  *)
(* main and the loading of the input (main.py, mindlogger.py), the        *)
(* writers (writers.py) and the dependency chain of the output formats    *)
(* (formats.py, report_processors.py).                                    *)
(*                                                                         *)
(* A text is a sequence of one-character strings.  A nullable cell is a    *)
(* sequence of length 0 (null) or 1 (the value).                           *)
(***************************************************************************)
EXTENDS Integers, Sequences, FiniteSets, TLC

VARIABLES
    response,       \* ResponseParser.parse: the text handed to parse
    parsed,         \* ResponseParser.parse: what the call produced
    options,        \* OptionsParser.parse: the text handed to parse
    parsed_options, \* OptionsParser.parse: what the call produced
    df,             \* expansion: the table handed to the expansion engine
    long_response,  \* expand_responses(df)
    long_options,   \* expand_options(df)
    scored,         \* ScoredResponsesFormat._format over the long report
    proc_in,        \* a single processor's _run: the table it is given
    proc_name,      \* a single processor's _run: which processor
    proc_out,       \* a single processor's _run: what the call produced
    PROCESSORS,     \* ReportProcessor.PROCESSORS, in registration order
    declared,       \* the processor classes defined so far
    chain,          \* load_web_export: the loop's position, runs and outcome
    run_config,     \* main: the configuration and the input path it names
    run,            \* main: its position, what it loaded, wrote and raised
    output,         \* OutputWriter.write: the named output and the option given
    written,        \* OutputWriter.write: the table it wrote, and where
    legacy          \* formats.OutputFormat.produce over report_processors.py

vars == <<response, parsed, options, parsed_options, df, long_response,
          long_options, scored, proc_in, proc_name, proc_out, PROCESSORS,
          declared, chain, run_config, run, output, written, legacy>>

\* the variables of main, of the writer and of the dependency chain
mainVars == <<run_config, run>>
writerVars == <<output, written>>
outputVars == <<run_config, run, output, written, legacy>>

\* the variables of the parsers, the processors, the expansion and the
\* default chain
reportVars == <<response, parsed, options, parsed_options, df, long_response,
                long_options, scored, proc_in, proc_name, proc_out,
                PROCESSORS, declared, chain>>

-----------------------------------------------------------------------------
(* Bounds of the model. *)

MaxList == 3        \* longest integer list written in a response text
MaxOptions == 2     \* most entries written in an options text
MaxRows == 2        \* most rows in a table handed to the expansion engine
MaxUser == 2        \* most processor classes defined besides the ten built in

-----------------------------------------------------------------------------
(* Nullable cells. *)

None == <<>>
Some(v) == <<v>>
IsNull(c) == Len(c) = 0
Get(c) == c[1]

-----------------------------------------------------------------------------
(* Characters. *)

Digits == {"0", "1", "2", "3", "4", "5", "6", "7", "8", "9"}
DigitVal(c) ==
    CASE c = "0" -> 0 [] c = "1" -> 1 [] c = "2" -> 2 [] c = "3" -> 3
      [] c = "4" -> 4 [] c = "5" -> 5 [] c = "6" -> 6 [] c = "7" -> 7
      [] c = "8" -> 8 [] c = "9" -> 9
Letters ==
    {"a", "b", "c", "d", "e", "f", "g", "h", "i", "j", "k", "l", "m", "n",
     "o", "p", "q", "r", "s", "t", "u", "v", "w", "x", "y", "z", "A", "B",
     "C", "D", "E", "F", "G", "H", "I", "J", "K", "L", "M", "N", "O", "P",
     "Q", "R", "S", "T", "U", "V", "W", "X", "Y", "Z"}
\* \w of Python's re, over the characters the texts below are written in
WordChars == Digits \cup Letters \cup {"_"}
\* common.WS_INLINE: (" "|/\t/)+
InlineWS == {" ", "\t"}
\* common.NEWLINE: (CR? LF)+
NewlineChars == {"\n"}

RECURSIVE ToInt(_)
\* int("".join(items)) / int(token) of a digit string
ToInt(ds) ==
    IF Len(ds) = 0 THEN 0
    ELSE 10 * ToInt(SubSeq(ds, 1, Len(ds) - 1)) + DigitVal(ds[Len(ds)])

-----------------------------------------------------------------------------
(* The dynamic Earley lexer (Lark's default for parser='earley'): a        *)
(* terminal is matched at a position by its regular expression, taking the *)
(* regexp's one (greedy) match; before any terminal, and after the last,   *)
(* any number of ignored terminals (%ignore ",") may be passed over.       *)
(* A matcher yields the set of its matches [e |-> next position, v |-> value]. *)

\* %ignore ",": the positions reached from i by passing over ignored commas
SkipIgn(s, i) ==
    {j \in i..(Len(s) + 1) : \A k \in i..(j - 1) : s[k] = ","}

LitAt(s, p, lit) ==
    /\ p + Len(lit) - 1 <= Len(s)
    /\ SubSeq(s, p, p + Len(lit) - 1) = lit

\* a string terminal: it is filtered out of the tree, so only its end matters
TLit(s, i, lit) ==
    {p + Len(lit) : p \in {q \in SkipIgn(s, i) : LitAt(s, q, lit)}}

RECURSIVE RunEnd(_, _, _)
\* the end of the greedy match of /[class]+/ from p
RunEnd(s, p, class) ==
    IF p <= Len(s) /\ s[p] \in class THEN RunEnd(s, p + 1, class) ELSE p

\* a terminal /[class]+/, with the text it matched
TRun(s, i, class) ==
    {[e |-> RunEnd(s, p, class), v |-> SubSeq(s, p, RunEnd(s, p, class) - 1)] :
        p \in {q \in SkipIgn(s, i) : q <= Len(s) /\ s[q] \in class}}

\* _WSI
WSI(s, i) == {m.e : m \in TRun(s, i, InlineWS)}
\* _WSI?
OptWSI(s, i) == {i} \cup WSI(s, i)
\* _NL?
OptNL(s, i) == {i} \cup {m.e : m \in TRun(s, i, NewlineChars)}
\* INT, through the transformer's INT = int
TInt(s, i) == {[e |-> m.e, v |-> ToInt(m.v)] : m \in TRun(s, i, Digits)}
\* DIGIT: one digit, kept as the token's text
TDigit(s, i) ==
    {[e |-> p + 1, v |-> <<s[p]>>] :
        p \in {q \in SkipIgn(s, i) : q <= Len(s) /\ s[q] \in Digits}}
\* _CSV: "," _WSI
CSV(s, i) == UNION {WSI(s, c) : c \in TLit(s, i, <<",">>)}
\* /.+/s : everything that is left, when something is left
TRest(s, i) ==
    {[e |-> Len(s) + 1, v |-> SubSeq(s, p, Len(s))] :
        p \in {q \in SkipIgn(s, i) : q <= Len(s)}}

\* the match is a parse of the whole text: only ignored commas are left
AtEnd(s, e) == (Len(s) + 1) \in SkipIgn(s, e)


-----------------------------------------------------------------------------
(* ResponseTransformer (parsers.py): the callbacks Lark applies to the     *)
(* tree node of each rule.  A callback that can raise returns              *)
(* [raised |-> the exception's name or "", v |-> its value].               *)

PIVOT_YEAR == 69
MAX_TWO_DIGIT == 99

DEFAULT_SCHEMA ==
    [type |-> None, raw_value |-> None, null_value |-> None, value |-> None,
     text |-> None, file |-> None, date |-> None, time |-> None,
     time_range |-> None, geo |-> None, matrix |-> None]

\* the ten variant fields of a record
VariantFields ==
    {"raw_value", "null_value", "value", "text", "file", "date", "time",
     "time_range", "geo", "matrix"}

\* start: DEFAULT_SCHEMA | value
start(value) == value @@ DEFAULT_SCHEMA

Returned(v) == [raised |-> "", v |-> v]
Raised(exc, v) == [raised |-> exc, v |-> v]

padded_two_digit(items) == ToInt(items)

\* a variant of year whose first century reaches up to the pivot itself
year_pivot_inclusive(items) ==
    LET iyr == ToInt(items)
        conversion == IF iyr <= PIVOT_YEAR THEN 2000
                      ELSE IF iyr <= MAX_TWO_DIGIT THEN 1900 ELSE 0
    IN  iyr + conversion

year(items) ==
    LET iyr == ToInt(items)
        conversion == IF iyr < PIVOT_YEAR THEN 2000
                      ELSE IF iyr <= MAX_TWO_DIGIT THEN 1900 ELSE 0
    IN  iyr + conversion

IsLeap(y) == (y % 4 = 0) /\ ((y % 100 # 0) \/ (y % 400 = 0))
DaysInMonth(y, m) ==
    IF m = 2 THEN (IF IsLeap(y) THEN 29 ELSE 28)
    ELSE IF m \in {4, 6, 9, 11} THEN 30 ELSE 31

\* datetime.date(year, month, day): ValueError outside the calendar
PyDate(y, m, d) ==
    IF /\ y \in 1..9999
       /\ m \in 1..12
       /\ d >= 1
       /\ d <= DaysInMonth(y, m)
    THEN Returned([year |-> y, month |-> m, day |-> d])
    ELSE Raised("ValueError", [year |-> 0, month |-> 0, day |-> 0])

\* datetime.time(hour, minute): ValueError outside 0..23, 0..59
PyTime(h, m) ==
    IF h \in 0..23 /\ m \in 0..59
    THEN Returned([hour |-> h, minute |-> m])
    ELSE Raised("ValueError", [hour |-> 0, minute |-> 0])

\* a variant of date_resp that reads the first field as the month
date_resp_month_first(day, month, yr) ==
    LET d == PyDate(yr, day, month)
    IN  [raised |-> d.raised,
         v |-> IF d.raised = "" THEN [type |-> Some("date"), date |-> Some(d.v)]
               ELSE [type |-> None]]

date_resp(day, month, yr) ==
    LET d == PyDate(yr, month, day)
    IN  [raised |-> d.raised,
         v |-> IF d.raised = "" THEN [type |-> Some("date"), date |-> Some(d.v)]
               ELSE [type |-> None]]

time(hour, minute) == PyTime(hour, minute)

time_resp(t) == [type |-> Some("time"), time |-> Some(t)]

\* a variant of time_range_resp that wraps a negative duration into the
\* next day
time_range_resp_wrapped(from_time, to_time) ==
    LET minutes == 60 * (to_time.hour - from_time.hour)
                   + (to_time.minute - from_time.minute)
    IN  [type |-> Some("time_range"),
         time_range |-> Some(IF minutes < 0 THEN minutes + 1440 ELSE minutes)]

\* timedelta(hours, minutes), held as its total of minutes
time_range_resp(from_time, to_time) ==
    [type |-> Some("time_range"),
     time_range |-> Some(60 * (to_time.hour - from_time.hour)
                         + (to_time.minute - from_time.minute))]

geo_resp(latitude, longitude) ==
    [type |-> Some("geo"),
     geo |-> Some([latitude |-> latitude, longitude |-> longitude])]

text_resp(text) == [type |-> Some("text"), text |-> Some(text)]

null_resp == [type |-> Some("null_value"), null_value |-> Some(TRUE)]

value_resp(value) == [type |-> Some("value"), value |-> Some(<<value>>)]

\* a variant of multivalue_resp that keeps only the first element
multivalue_resp_first(ilist) ==
    [type |-> Some("value"), value |-> Some(<<ilist[1]>>)]

multivalue_resp(ilist) == [type |-> Some("value"), value |-> Some(ilist)]

\* a variant of row_multi_resp that keeps the grammar rule's name as the tag
row_multi_resp_rule_tag(items) ==
    [type |-> Some("row_multi"), matrix |-> Some(items)]

row_multi_resp(items) == [type |-> Some("matrix"), matrix |-> Some(items)]

row_kvv(key, ilist) == [row |-> key, value |-> ilist]

file_resp(path) == [type |-> Some("file"), file |-> Some(path)]

raw_value_resp(value) == [type |-> Some("raw_value"), raw_value |-> Some(value)]

RECURSIVE StripZeros(_)
StripZeros(ds) ==
    IF Len(ds) > 0 /\ ds[Len(ds)] = "0"
    THEN StripZeros(SubSeq(ds, 1, Len(ds) - 1)) ELSE ds

\* SIGNED_FLOAT = float: the number, as sign, whole part and fraction digits
PyFloat(neg, whole, frac) ==
    LET f == StripZeros(frac)
        w == ToInt(whole)
    IN  [neg |-> neg /\ (w # 0 \/ Len(f) # 0), whole |-> w, frac |-> f]

-----------------------------------------------------------------------------
(* ResponseParser.RESPONSE_GRAMMAR (parsers.py): the string terminals.     *)

L_text == <<"t", "e", "x", "t", ":">>
L_value_null == <<"v", "a", "l", "u", "e", ":", " ", "n", "u", "l", "l">>
L_value == <<"v", "a", "l", "u", "e", ":">>
L_date == <<"d", "a", "t", "e", ":">>
L_time == <<"t", "i", "m", "e", ":">>
L_time_range == <<"t", "i", "m", "e", "_", "r", "a", "n", "g", "e", ":">>
L_from == <<"f", "r", "o", "m">>
L_to == <<"t", "o">>
L_hr == <<"h", "r">>
L_min == <<"m", "i", "n">>
L_geo == <<"g", "e", "o", ":">>
L_lat == <<"l", "a", "t">>
L_long == <<"l", "o", "n", "g">>
L_slash == <<"/">>
L_colon == <<":">>

\* sequencing: the matches of F from each position of P
Then(P, F(_)) == UNION {F(p) : p \in P}

Ok(dict) == [raised |-> "", rec |-> start(dict)]
Err(exc) == [raised |-> exc, rec |-> DEFAULT_SCHEMA]

RECURSIVE NDigits(_, _, _)
\* DIGIT ~ n
NDigits(s, i, n) ==
    IF n = 0 THEN {[e |-> i, v |-> <<>>]}
    ELSE UNION {{[e |-> r.e, v |-> a.v \o r.v] : r \in NDigits(s, a.e, n - 1)} :
                    a \in TDigit(s, i)}

\* padded_two_digit: DIGIT ~ 1..2
rule_padded_two_digit(s, i) ==
    {[e |-> m.e, v |-> padded_two_digit(m.v)] :
        m \in NDigits(s, i, 1) \cup NDigits(s, i, 2)}

\* year: (DIGIT ~ 2) | (DIGIT ~ 4)
rule_year(s, i) ==
    {[e |-> m.e, v |-> year(m.v)] : m \in NDigits(s, i, 2) \cup NDigits(s, i, 4)}

RECURSIVE rule_ilist(_, _)
\* ilist: _sep{INT, _CSV}
rule_ilist(s, i) ==
    UNION {{[e |-> m.e, v |-> <<m.v>>]}
           \cup {[e |-> r.e, v |-> <<m.v>> \o r.v] :
                    r \in Then(CSV(s, m.e), LAMBDA c : rule_ilist(s, c))} :
           m \in TInt(s, i)}

\* time: _hour _WSI _minute, with _hour: "hr" _WSI padded_two_digit and
\* _minute: "min" _WSI padded_two_digit
rule_time(s, i) ==
    UNION {{[e |-> mi.e, v |-> time(hr.v, mi.v)] :
                mi \in Then(Then(Then(WSI(s, hr.e),
                                      LAMBDA c : TLit(s, c, L_min)),
                                 LAMBDA c : WSI(s, c)),
                            LAMBDA c : rule_padded_two_digit(s, c))} :
           hr \in Then(Then(TLit(s, i, L_hr), LAMBDA c : WSI(s, c)),
                       LAMBDA c : rule_padded_two_digit(s, c))}

\* common.SIGNED_FLOAT at p, in the forms [+-]? INT "." INT? and [+-]? "." INT
\* (no text of the model writes an exponent)
FloatAt(s, p) ==
    LET q  == IF p <= Len(s) /\ s[p] \in {"+", "-"} THEN p + 1 ELSE p
        d1 == RunEnd(s, q, Digits)
        d2 == RunEnd(s, d1 + 1, Digits)
        dot == d1 <= Len(s) /\ s[d1] = "."
        neg == q > p /\ s[p] = "-"
    IN  IF dot /\ (d1 > q \/ d2 > d1 + 1)
        THEN {[e |-> d2,
               v |-> PyFloat(neg, SubSeq(s, q, d1 - 1), SubSeq(s, d1 + 1, d2 - 1))]}
        ELSE {}

TSignedFloat(s, i) == UNION {FloatAt(s, p) : p \in SkipIgn(s, i)}

\* row_kvv: _value ":" _WSI? ilist, with _value: /\w+/
rule_row_kvv(s, i) ==
    UNION {{[e |-> l.e, v |-> row_kvv(k.v, l.v)] :
                l \in Then(Then(TLit(s, k.e, L_colon), LAMBDA c : OptWSI(s, c)),
                           LAMBDA c : rule_ilist(s, c))} :
           k \in TRun(s, i, WordChars)}

RECURSIVE rule_rows(_, _)
\* (row_kvv _NL?)+
rule_rows(s, i) ==
    UNION {UNION {{[e |-> c, v |-> <<r.v>>]}
                  \cup {[e |-> t.e, v |-> <<r.v>> \o t.v] : t \in rule_rows(s, c)} :
                  c \in OptNL(s, r.e)} :
           r \in rule_row_kvv(s, i)}

\* /\.?\/?.+\/.+\.\w{2,4}/ at p: the candidate matches <<a, b, k, d, n>>: the
\* first .+ is s[b..k-1], the "/" is s[k], the second .+ is s[k+1..d-1], the
\* "." is s[d] and the extension is the n characters after it
FileMatches(s, p) ==
    LET NoNL(x, y) == \A j \in x..y : s[j] # "\n"
    IN  {t \in ((p..(p + 1)) \X (p..(p + 2)) \X (p..Len(s)) \X (p..Len(s)) \X (2..4)) :
            /\ (t[1] = p + 1 => s[p] = ".")
            /\ t[2] \in {t[1], t[1] + 1}
            /\ (t[2] = t[1] + 1 => (t[1] <= Len(s) /\ s[t[1]] = "/"))
            /\ t[3] > t[2] /\ s[t[3]] = "/" /\ NoNL(t[2], t[3] - 1)
            /\ t[4] > t[3] + 1 /\ s[t[4]] = "." /\ NoNL(t[3] + 1, t[4] - 1)
            /\ t[4] + t[5] <= Len(s)
            /\ \A j \in (t[4] + 1)..(t[4] + t[5]) : s[j] \in WordChars}

\* the match Python's backtracking finds first: every quantifier is greedy, so
\* the candidates are preferred field by field, the larger the better
Greediest(T) ==
    CHOOSE t \in T : \A u \in T :
        \/ t = u
        \/ \E f \in 1..5 : t[f] > u[f] /\ \A g \in 1..(f - 1) : t[g] = u[g]

FileAt(s, p) ==
    IF p > Len(s) \/ FileMatches(s, p) = {} THEN {}
    ELSE LET t == Greediest(FileMatches(s, p))
         IN  {[e |-> t[4] + t[5] + 1, v |-> SubSeq(s, p, t[4] + t[5])]}

TFile(s, i) == UNION {FileAt(s, p) : p \in SkipIgn(s, i)}

-----------------------------------------------------------------------------
(* The alternatives of start.  Each yields the outcomes                    *)
(* [raised, rec] of its derivations of the whole text: the record the      *)
(* transformer builds from the derivation, or the exception it raises.     *)

\* text_resp.10: "text:" _WSI _text, with _text: /.+/s
rule_text_resp(s) ==
    {Ok(text_resp(m.v)) :
        m \in {x \in Then(Then(TLit(s, 1, L_text), LAMBDA c : WSI(s, c)),
                          LAMBDA c : TRest(s, c)) : AtEnd(s, x.e)}}

\* null_resp.20: "value: null"
rule_null_resp(s) ==
    {Ok(null_resp) : c \in {x \in TLit(s, 1, L_value_null) : AtEnd(s, x)}}

\* value_resp.15: "value:" _WSI INT
rule_value_resp(s) ==
    {Ok(value_resp(m.v)) :
        m \in {x \in Then(Then(TLit(s, 1, L_value), LAMBDA c : WSI(s, c)),
                          LAMBDA c : TInt(s, c)) : AtEnd(s, x.e)}}

\* multivalue_resp.10: "value:" _WSI ilist
rule_multivalue_resp(s) ==
    {Ok(multivalue_resp(m.v)) :
        m \in {x \in Then(Then(TLit(s, 1, L_value), LAMBDA c : WSI(s, c)),
                          LAMBDA c : rule_ilist(s, c)) : AtEnd(s, x.e)}}

\* date_resp.10: "date:" _WSI padded_two_digit "/" padded_two_digit "/" year
rule_date_resp(s) ==
    UNION {UNION {{IF date_resp(a.v, b.v, y.v).raised = ""
                   THEN Ok(date_resp(a.v, b.v, y.v).v)
                   ELSE Err(date_resp(a.v, b.v, y.v).raised) :
                        y \in {x \in Then(TLit(s, b.e, L_slash),
                                          LAMBDA c : rule_year(s, c)) :
                                  AtEnd(s, x.e)}} :
                  b \in Then(TLit(s, a.e, L_slash),
                             LAMBDA c : rule_padded_two_digit(s, c))} :
           a \in Then(Then(TLit(s, 1, L_date), LAMBDA c : WSI(s, c)),
                      LAMBDA c : rule_padded_two_digit(s, c))}

\* time_resp.10: "time:" _WSI time
rule_time_resp(s) ==
    {IF t.v.raised = "" THEN Ok(time_resp(t.v.v)) ELSE Err(t.v.raised) :
        t \in {x \in Then(Then(TLit(s, 1, L_time), LAMBDA c : WSI(s, c)),
                          LAMBDA c : rule_time(s, c)) : AtEnd(s, x.e)}}

\* time_range_resp.10:
\*   "time_range:" _WSI "from" _WSI time _WSI "/" _WSI "to" _WSI time
rule_time_range_resp(s) ==
    UNION {{IF f.v.raised # "" THEN Err(f.v.raised)
            ELSE IF t.v.raised # "" THEN Err(t.v.raised)
            ELSE Ok(time_range_resp(f.v.v, t.v.v)) :
                t \in {x \in Then(Then(Then(Then(Then(WSI(s, f.e),
                                    LAMBDA c : TLit(s, c, L_slash)),
                                    LAMBDA c : WSI(s, c)),
                                    LAMBDA c : TLit(s, c, L_to)),
                                    LAMBDA c : WSI(s, c)),
                                  LAMBDA c : rule_time(s, c)) : AtEnd(s, x.e)}} :
           f \in Then(Then(Then(Then(TLit(s, 1, L_time_range),
                        LAMBDA c : WSI(s, c)),
                        LAMBDA c : TLit(s, c, L_from)),
                        LAMBDA c : WSI(s, c)),
                      LAMBDA c : rule_time(s, c))}

\* geo_resp.10: "geo:" _WSI _latitude _WSI _longitude, with
\* _latitude: "lat" _WSI SIGNED_FLOAT and _longitude: "long" _WSI SIGNED_FLOAT
rule_geo_resp(s) ==
    UNION {{Ok(geo_resp(la.v, lo.v)) :
                lo \in {x \in Then(Then(Then(WSI(s, la.e),
                                    LAMBDA c : TLit(s, c, L_long)),
                                    LAMBDA c : WSI(s, c)),
                                   LAMBDA c : TSignedFloat(s, c)) :
                           AtEnd(s, x.e)}} :
           la \in Then(Then(Then(Then(TLit(s, 1, L_geo),
                        LAMBDA c : WSI(s, c)),
                        LAMBDA c : TLit(s, c, L_lat)),
                        LAMBDA c : WSI(s, c)),
                       LAMBDA c : TSignedFloat(s, c))}

\* row_multi_resp.5: (row_kvv _NL?)+
rule_row_multi_resp(s) ==
    {Ok(row_multi_resp(m.v)) : m \in {x \in rule_rows(s, 1) : AtEnd(s, x.e)}}

\* file_resp.5: /\.?\/?.+\/.+\.\w{2,4}/
rule_file_resp(s) ==
    {Ok(file_resp(m.v)) : m \in {x \in TFile(s, 1) : AtEnd(s, x.e)}}

\* raw_value_resp.0: /.+/s
rule_raw_value_resp(s) ==
    {Ok(raw_value_resp(m.v)) : m \in {x \in TRest(s, 1) : AtEnd(s, x.e)}}

\* start: text_resp | null_resp | ... | raw_value_resp, in this order
\* (row_resp is commented out of the grammar)
Alternatives == 1..11

Derivations(s, a) ==
    CASE a = 1 -> rule_text_resp(s)
      [] a = 2 -> rule_null_resp(s)
      [] a = 3 -> rule_value_resp(s)
      [] a = 4 -> rule_multivalue_resp(s)
      [] a = 5 -> rule_date_resp(s)
      [] a = 6 -> rule_time_resp(s)
      [] a = 7 -> rule_time_range_resp(s)
      [] a = 8 -> rule_geo_resp(s)
      [] a = 9 -> rule_row_multi_resp(s)
      [] a = 10 -> rule_file_resp(s)
      [] a = 11 -> rule_raw_value_resp(s)

\* the priority written after each rule's name (rule.N)
RulePriority(a) ==
    CASE a = 1 -> 10 [] a = 2 -> 20 [] a = 3 -> 15 [] a = 4 -> 10
      [] a = 5 -> 10 [] a = 6 -> 10 [] a = 7 -> 10 [] a = 8 -> 10
      [] a = 9 -> 5  [] a = 10 -> 5 [] a = 11 -> 0

Matching(s) == {a \in Alternatives : Derivations(s, a) # {}}

\* Earley with ambiguity='resolve': of the alternatives that derive the text
\* the one of highest priority is kept, the earlier of two of equal priority
Resolved(s) ==
    CHOOSE a \in Matching(s) : \A b \in Matching(s) :
        \/ RulePriority(a) > RulePriority(b)
        \/ RulePriority(a) = RulePriority(b) /\ a <= b

\* ResponseParser.parse: transform(parse(response)).  No derivation at all
\* is Lark's UnexpectedInput.  Two derivations under the resolved alternative
\* have the same priority; either may be the one Lark keeps.
ParseOutcomes(s) ==
    IF Matching(s) = {} THEN {Err("UnexpectedInput")}
    ELSE Derivations(s, Resolved(s))

-----------------------------------------------------------------------------
(* OptionsTransformer and OptionsParser.OPTIONS_GRAMMAR (parsers.py).      *)

L_Max == <<"M", "a", "x", ":">>
L_Min == <<"M", "i", "n", ":">>
L_comma == <<",">>
L_lparen == <<"(">>
L_score == <<"s", "c", "o", "r", "e", ":">>
L_rparen == <<")">>

\* a Python value that is a str in one place and an int in another
PyStr(chars) == [str |-> chars]
PyInt(n) == [int |-> n]

\* option: name is the token's text (the name callback), value an int
option(name, value) == [name |-> PyStr(name), value |-> value, score |-> None]

\* a variant of scored_option that leaves the score out
scored_option_unscored(opt, score) ==
    [name |-> opt.name, value |-> opt.value, score |-> None]

scored_option(opt, score) ==
    [name |-> opt.name, value |-> opt.value, score |-> Some(score)]

\* range(minimum, maximum + 1), one record for each n
min_max_range(minimum, maximum) ==
    [k \in 1..(IF maximum >= minimum THEN maximum - minimum + 1 ELSE 0) |->
        [name |-> PyInt(minimum + k - 1), value |-> minimum + k - 1,
         score |-> Some(minimum + k - 1)]]

\* a variant of max_min_range that hands its arguments on in text order
max_min_range_text_order(maximum, minimum) == min_max_range(maximum, minimum)

max_min_range(maximum, minimum) == min_max_range(minimum, maximum)

\* option: name ":" _WSI? INT, with name: /\w+/
rule_option(s, i) ==
    UNION {{[e |-> v.e, v |-> option(k.v, v.v)] :
                v \in Then(Then(TLit(s, k.e, L_colon), LAMBDA c : OptWSI(s, c)),
                           LAMBDA c : TInt(s, c))} :
           k \in TRun(s, i, WordChars)}

\* common.SIGNED_INT: ["+"|"-"] INT, through SIGNED_INT = int
SignedIntAt(s, p) ==
    LET q == IF p <= Len(s) /\ s[p] \in {"+", "-"} THEN p + 1 ELSE p
        d == RunEnd(s, q, Digits)
    IN  IF d > q
        THEN {[e |-> d,
               v |-> IF q > p /\ s[p] = "-" THEN 0 - ToInt(SubSeq(s, q, d - 1))
                     ELSE ToInt(SubSeq(s, q, d - 1))]}
        ELSE {}

TSignedInt(s, i) == UNION {SignedIntAt(s, p) : p \in SkipIgn(s, i)}

\* score: "(" "score:" _WSI? SIGNED_INT _WSI? ")"
rule_score(s, i) ==
    UNION {{[e |-> c, v |-> n.v] :
                c \in Then(OptWSI(s, n.e), LAMBDA c : TLit(s, c, L_rparen))} :
           n \in Then(Then(Then(TLit(s, i, L_lparen),
                        LAMBDA c : TLit(s, c, L_score)),
                        LAMBDA c : OptWSI(s, c)),
                      LAMBDA c : TSignedInt(s, c))}

\* scored_option: option _WSI score
rule_scored_option(s, i) ==
    UNION {{[e |-> sc.e, v |-> scored_option(o.v, sc.v)] :
                sc \in Then(WSI(s, o.e), LAMBDA c : rule_score(s, c))} :
           o \in rule_option(s, i)}

RECURSIVE rule_scored_list(_, _)
\* _sep{scored_option, _CSV}
rule_scored_list(s, i) ==
    UNION {{[e |-> m.e, v |-> <<m.v>>]}
           \cup {[e |-> r.e, v |-> <<m.v>> \o r.v] :
                    r \in Then(CSV(s, m.e), LAMBDA c : rule_scored_list(s, c))} :
           m \in rule_scored_option(s, i)}

RECURSIVE rule_option_list(_, _)
\* _sep{option, _CSV}
rule_option_list(s, i) ==
    UNION {{[e |-> m.e, v |-> <<m.v>>]}
           \cup {[e |-> r.e, v |-> <<m.v>> \o r.v] :
                    r \in Then(CSV(s, m.e), LAMBDA c : rule_option_list(s, c))} :
           m \in rule_option(s, i)}

\* scored_options.10: _sep{scored_option, _CSV}
rule_scored_options(s) ==
    {m.v : m \in {x \in rule_scored_list(s, 1) : AtEnd(s, x.e)}}

\* the two INTs of <first> _WSI INT "," _WSI <second> _WSI INT
RangeInts(s, first, second) ==
    UNION {{<<a.v, b.v>> :
                b \in {x \in Then(Then(Then(Then(TLit(s, a.e, L_comma),
                                    LAMBDA c : WSI(s, c)),
                                    LAMBDA c : TLit(s, c, second)),
                                    LAMBDA c : WSI(s, c)),
                                  LAMBDA c : TInt(s, c)) : AtEnd(s, x.e)}} :
           a \in Then(Then(TLit(s, 1, first), LAMBDA c : WSI(s, c)),
                      LAMBDA c : TInt(s, c))}

\* max_min_range.20: "Max:" _WSI INT "," _WSI "Min:" _WSI INT
rule_max_min_range(s) ==
    {max_min_range(t[1], t[2]) : t \in RangeInts(s, L_Max, L_Min)}

\* min_max_range.20: "Min:" _WSI INT "," _WSI "Max:" _WSI INT
rule_min_max_range(s) ==
    {min_max_range(t[1], t[2]) : t \in RangeInts(s, L_Min, L_Max)}

\* _range.20: max_min_range | min_max_range
rule_range(s) == rule_max_min_range(s) \cup rule_min_max_range(s)

\* value_options.10: _sep{option, _CSV}
rule_value_options(s) ==
    {m.v : m \in {x \in rule_option_list(s, 1) : AtEnd(s, x.e)}}

\* ?start: scored_options | _range | value_options, in this order
OptionAlternatives == 1..3

OptionDerivations(s, a) ==
    CASE a = 1 -> rule_scored_options(s)
      [] a = 2 -> rule_range(s)
      [] a = 3 -> rule_value_options(s)

\* the priorities of the rules of a derivation add up: _range.20 over
\* max_min_range.20 or min_max_range.20
OptionPriority(a) ==
    CASE a = 1 -> 10 [] a = 2 -> 20 + 20 [] a = 3 -> 10

OptionMatching(s) == {a \in OptionAlternatives : OptionDerivations(s, a) # {}}

OptionResolved(s) ==
    CHOOSE a \in OptionMatching(s) : \A b \in OptionMatching(s) :
        \/ OptionPriority(a) > OptionPriority(b)
        \/ OptionPriority(a) = OptionPriority(b) /\ a <= b

\* OptionsParser.parse: transform(parse(response)); the grammar has no
\* catch-all rule, so a text no alternative derives is Lark's UnexpectedInput
OptionOutcomes(s) ==
    IF OptionMatching(s) = {} THEN {[raised |-> "UnexpectedInput", v |-> <<>>]}
    ELSE {[raised |-> "", v |-> l] : l \in OptionDerivations(s, OptionResolved(s))}

-----------------------------------------------------------------------------
(* The response texts parse is called on: the shapes of every rule of the  *)
(* grammar, with the field values and separators varied, and free texts.   *)

RECURSIVE Join(_, _)
\* sep.join(parts)
Join(parts, sep) ==
    IF Len(parts) = 0 THEN <<>>
    ELSE IF Len(parts) = 1 THEN parts[1]
    ELSE parts[1] \o sep \o Join(Tail(parts), sep)

NumStrs == {<<"1">>,
            <<"2">>,
            <<"1", "2">>}
Separators == {<<",", " ">>,
               <<",">>,
               <<" ", ",", " ">>}
DayStrs == {<<"1">>,
            <<"0", "4">>,
            <<"4">>,
            <<"0">>,
            <<"2", "8">>,
            <<"2", "9">>,
            <<"3", "0">>,
            <<"3", "1">>,
            <<"3", "2">>,
            <<"9", "9">>}
MonthStrs == {<<"2">>,
              <<"0", "5">>,
              <<"4">>,
              <<"0">>,
              <<"1", "2">>,
              <<"1", "3">>,
              <<"1">>}
YearStrs == {<<"2", "1">>,
             <<"0", "0">>,
             <<"6", "8">>,
             <<"6", "9">>,
             <<"9", "9">>,
             <<"2", "0", "2", "1">>,
             <<"2", "0", "2", "4">>,
             <<"0", "0", "2", "1">>,
             <<"1", "9", "0", "0">>}
HourStrs == {<<"0">>,
             <<"9">>,
             <<"0", "9">>,
             <<"1", "2">>,
             <<"2", "3">>,
             <<"2", "4">>,
             <<"9", "9">>}
MinuteStrs == {<<"0">>,
               <<"5">>,
               <<"0", "5">>,
               <<"3", "0">>,
               <<"5", "9">>,
               <<"6", "0">>}
FloatStrs == {<<"4", "0", ".", "7", "1", "2", "8">>,
              <<"-", "7", "4", ".", "0", "0", "6", "0">>,
              <<"0", ".", "5">>,
              <<".", "5">>,
              <<"-", "0", ".", "0">>}
RowKeys == {<<"r", "o", "w", "1">>,
            <<"r", "o", "w", "2">>,
            <<"a">>}

IntListTexts ==
    {Join(l, sep) : l \in UNION {[1..n -> NumStrs] : n \in 1..MaxList},
                    sep \in Separators}

ValueTexts == {L_value \o <<" ">> \o t : t \in IntListTexts}

DateTexts ==
    {L_date \o <<" ">> \o d \o L_slash \o m \o L_slash \o y :
        d \in DayStrs, m \in MonthStrs, y \in YearStrs}

TimeOfDay(h, m) == L_hr \o <<" ">> \o h \o <<" ">> \o L_min \o <<" ">> \o m

TimeTexts ==
    {L_time \o <<" ">> \o TimeOfDay(h, m) : h \in HourStrs, m \in MinuteStrs}

FromHourStrs == {<<"9">>,
                 <<"2", "3">>,
                 <<"2", "5">>}
FromMinuteStrs == {<<"3", "0">>,
                   <<"6", "1">>}
ToHourStrs == {<<"1", "2">>,
               <<"0">>,
               <<"2", "4">>}
ToMinuteStrs == {<<"5">>,
                 <<"3", "0">>}

TimeRangeTextOf(h1, m1, h2, m2) ==
    L_time_range \o <<" ">> \o L_from \o <<" ">> \o TimeOfDay(h1, m1)
        \o <<" ", "/", " ">> \o L_to \o <<" ">> \o TimeOfDay(h2, m2)

TimeRangeTexts ==
    {TimeRangeTextOf(h1, m1, h2, m2) :
        h1 \in FromHourStrs, m1 \in FromMinuteStrs,
        h2 \in ToHourStrs, m2 \in ToMinuteStrs}

GeoTexts ==
    {L_geo \o <<" ">> \o L_lat \o <<" ">> \o la \o <<" ">> \o L_long \o <<" ">> \o lo :
        la \in FloatStrs, lo \in FloatStrs}

MatrixRowTexts ==
    {k \o L_colon \o <<" ">> \o Join(l, <<",", " ">>) :
        k \in RowKeys, l \in UNION {[1..n -> {<<"1">>, <<"2">>}] : n \in 1..2}}

MatrixTexts ==
    MatrixRowTexts
    \cup {a \o <<"\n">> \o b : a \in MatrixRowTexts, b \in MatrixRowTexts}

FreeTexts ==
    {<<"1", "0">>,
     <<"a", "b", "c">>,
     <<",", "a">>,
     <<"a", ",">>,
     <<"h", "e", "l", "l", "o", " ", "w", "o", "r", "l", "d">>,
     <<"v", "a", "l", "u", "e", ":", " ", "x">>,
     <<"v", "a", "l", "u", "e", ":", " ", "n", "u", "l", "l">>,
     <<"v", "a", "l", "u", "e", ":", " ", "n", "u", "l", "l", ",">>,
     <<"v", "a", "l", "u", "e", ":", " ", " ", "2">>,
     <<",", "v", "a", "l", "u", "e", ":", " ", "2">>,
     <<"v", "a", "l", "u", "e", ":", " ", "2", ",">>,
     <<"v", "a", "l", "u", "e", ":", " ", "1", ",", ",", " ", "2">>,
     <<"d", "a", "t", "e", ":", " ", "1", "/", "2">>,
     <<"d", "a", "t", "e", ":", " ", "1", "/", "2", "/", "0", "2", "1">>,
     <<"1", ",", "2">>,
     <<"t", "e", "x", "t", ":", " ", "S", "o", "m", "e", " ", "t", "e", "x", "t", " ", "h", "e", "r", "e">>,
     <<"t", "e", "x", "t", ":", " ", "S", "o", "m", "e", " ", "m", "u", "l", "t", "i", "l", "i", "n", "e", "\n", "t", "e", "x", "t", " ", "h", "e", "r", "e">>,
     <<"t", "e", "x", "t", ":", " ", "1", ",", " ", "2">>,
     <<"t", "e", "x", "t", ":", " ", "a", "/", "b", ".", "m", "p", "4">>,
     <<"t", "e", "x", "t", ":", " ", ",", "a">>,
     <<"t", "e", "x", "t", ":", " ", "v", "a", "l", "u", "e", ":", " ", "2">>,
     <<"t", "e", "x", "t", ":">>,
     <<".", "/", "p", "a", "t", "h", "/", "t", "o", "/", "f", "i", "l", "e", ".", "m", "p", "4">>,
     <<"a", "/", "b", ".", "c">>,
     <<"a", "/", "b", ".", "m", "p", "4">>,
     <<"/", "a", "/", "b", ".", "t", "x", "t">>,
     <<"d", "i", "r", "/", "f", ".", "j", "p", "e", "g">>,
     <<"a", "/", "b", ".", "m", "p", "4", " ", "x">>,
     <<"a", "/", "b", ".", "m", "p", "4", "x", "5">>,
     <<"a", "/", "b", "\n", "c", "/", "d", ".", "t", "x", "t">>,
     <<"t", "i", "m", "e", ":", " ", "h", "r", " ", "1", ",", "2", " ", "m", "i", "n", " ", "3", "0">>,
     <<"r", "o", "w", "1", ":", "1", "\n", "r", "o", "w", "2", ":", "2">>,
     <<"g", "e", "o", ":", " ", "l", "a", "t", " ", "4", "0", " ", "l", "o", "n", "g", " ", "2", ".", "5">>,
     <<"t", "i", "m", "e", "_", "r", "a", "n", "g", "e", ":", " ", "f", "r", "o", "m", " ", "h", "r", " ", "9", " ", "m", "i", "n", " ", "3", "0", " ", "/", " ", "t", "o", " ", "h", "r", " ", "1", "2", " ", "m", "i", "n", " ", "5">>}

ResponseTexts ==
    ValueTexts \cup DateTexts \cup TimeTexts \cup TimeRangeTexts \cup GeoTexts
    \cup MatrixTexts \cup FreeTexts \cup {<<>>}

-----------------------------------------------------------------------------
(* The options texts parse is called on. *)

RangeNums == {<<"0">>,
              <<"1">>,
              <<"2">>,
              <<"3">>,
              <<"1", "0">>}
OptionNames == {<<"1">>,
                <<"Y", "e", "s">>,
                <<"M", "a", "x">>,
                <<"M", "i", "n">>}
OptionValues == {<<"0">>,
                 <<"2">>}
ScoreStrs == {<<"1">>,
              <<"-", "1">>}

MaxMinText(hi, lo) ==
    L_Max \o <<" ">> \o hi \o <<",", " ">> \o L_Min \o <<" ">> \o lo
MinMaxText(lo, hi) ==
    L_Min \o <<" ">> \o lo \o <<",", " ">> \o L_Max \o <<" ">> \o hi

RangeTexts ==
    {MaxMinText(hi, lo) : hi \in RangeNums, lo \in RangeNums}
    \cup {MinMaxText(lo, hi) : lo \in RangeNums, hi \in RangeNums}

PlainEntry(n, v) == n \o L_colon \o <<" ">> \o v
ScoredEntry(n, v, sc) ==
    PlainEntry(n, v) \o <<" ">> \o L_lparen \o L_score \o <<" ">> \o sc \o L_rparen

PlainEntries == {PlainEntry(n, v) : n \in OptionNames, v \in OptionValues}
ScoredEntries ==
    {ScoredEntry(n, v, sc) : n \in {<<"1">>, <<"Y", "e", "s">>},
                             v \in OptionValues, sc \in ScoreStrs}

PlainTexts ==
    {Join(l, <<",", " ">>) :
        l \in UNION {[1..n -> PlainEntries] : n \in 1..MaxOptions}}
ScoredTexts ==
    {Join(l, <<",", " ">>) :
        l \in UNION {[1..n -> ScoredEntries] : n \in 1..MaxOptions}}

FreeOptionTexts ==
    {<<>>,
     <<"a", "b", "c">>,
     <<"M", "a", "x", ":", " ", "2">>,
     <<"M", "a", "x", ":", " ", "2", ",", " ", "M", "i", "n", ":", " ", "0", ",", " ", "a", ":", " ", "1">>,
     <<"1", ":", " ", "0", ",", " ", "2", ":", " ", "1", " ", "(", "s", "c", "o", "r", "e", ":", " ", "2", ")">>,
     <<"M", "a", "x", ":", "2", ",", " ", "M", "i", "n", ":", "0">>,
     <<"M", "a", "x", ":", " ", "2", ",", "M", "i", "n", ":", " ", "0">>,
     <<"1", ":", " ", "0", ",", " ", "2", ":", " ", "1", ",", " ", "3", ":", " ", "2">>,
     <<"1", ":", " ", "0", " ", "(", "s", "c", "o", "r", "e", ":", " ", "3", ")", ",", " ", "2", ":", " ", "1", " ", "(", "s", "c", "o", "r", "e", ":", " ", "4", ")", ",", " ", "3", ":", " ", "2", " ", "(", "s", "c", "o", "r", "e", ":", " ", "5", ")">>}

OptionTexts == RangeTexts \cup PlainTexts \cup ScoredTexts \cup FreeOptionTexts

-----------------------------------------------------------------------------
(* The two parsers as operations: one call of parse on one text. *)

NotParsed == [status |-> "none", raised |-> "", rec |-> DEFAULT_SCHEMA]
NoOptions == [status |-> "none", raised |-> "", v |-> <<>>]

\* the state of the parts of the program a specification leaves out
ParserIdle == response = <<>> /\ parsed = NotParsed
OptionsIdle == options = <<>> /\ parsed_options = NoOptions

\* ResponseParser.parse(response)
ResponseParser_parse ==
    /\ parsed.status = "none"
    /\ \E o \in ParseOutcomes(response) :
          parsed' = [status |-> "done", raised |-> o.raised, rec |-> o.rec]
    /\ UNCHANGED outputVars
    /\ UNCHANGED <<response, options, parsed_options, df, long_response,
                   long_options, scored, proc_in, proc_name, proc_out,
                   PROCESSORS, declared, chain>>

\* OptionsParser.parse(response)
OptionsParser_parse ==
    /\ parsed_options.status = "none"
    /\ \E o \in OptionOutcomes(options) :
          parsed_options' = [status |-> "done", raised |-> o.raised, v |-> o.v]
    /\ UNCHANGED outputVars
    /\ UNCHANGED <<response, parsed, options, df, long_response,
                   long_options, scored, proc_in, proc_name, proc_out,
                   PROCESSORS, declared, chain>>

-----------------------------------------------------------------------------
(* Tables (polars DataFrames).  A table is its schema, which maps each     *)
(* column name to the column's type, and its rows in order; a row maps     *)
(* each column name to a cell.  Every value is nullable, also the fields   *)
(* of a struct and the elements of a list.  A table that could not be      *)
(* computed carries the name of the exception raised instead.              *)

TScalar == [k |-> "scalar"]
TStruct(fields) == [k |-> "struct", f |-> fields]
TList(elem) == [k |-> "list", e |-> elem]

Table(schema, rows) == [schema |-> schema, rows |-> rows, raised |-> ""]
Error(exc) == [schema |-> [c \in {} |-> TScalar], rows |-> <<>>, raised |-> exc]
NoTable == Table([c \in {} |-> TScalar], <<>>)
Columns(t) == DOMAIN t.schema
Height(t) == Len(t.rows)

\* an operation that reads the columns cols of t
Need(t, cols, Op(_)) ==
    IF t.raised # "" THEN t
    ELSE IF ~(cols \subseteq Columns(t)) THEN Error("ColumnNotFoundError")
    ELSE Op(t)

RECURSIVE Concat(_)
Concat(seqs) ==
    IF Len(seqs) = 0 THEN <<>> ELSE Head(seqs) \o Concat(Tail(seqs))

\* the concatenation of F(row) over the rows, in order
FlatMap(rows, F(_)) == Concat([i \in 1..Len(rows) |-> F(rows[i])])

\* DataFrame.with_columns of one column given cell by cell: adds the column
\* or overwrites it
WithCells(t, name, type, cells) ==
    LET cols == Columns(t) \cup {name}
    IN  Table([c \in cols |-> IF c = name THEN type ELSE t.schema[c]],
              [i \in 1..Height(t) |->
                  [c \in cols |-> IF c = name THEN cells[i] ELSE t.rows[i][c]]])

\* DataFrame.with_columns(name=expr)
WithColumn(t, name, type, Expr(_)) ==
    WithCells(t, name, type, [i \in 1..Height(t) |-> Expr(t.rows[i])])

\* DataFrame.drop(*names) and select(pl.exclude(*names)) over present names
Without(t, names) ==
    LET cols == Columns(t) \ names
    IN  Table([c \in cols |-> t.schema[c]],
              [i \in 1..Height(t) |-> [c \in cols |-> t.rows[i][c]]])

\* DataFrame.drop(*names): every name must be a column
Drop(t, names) == Need(t, names, LAMBDA u : Without(u, names))

\* with_columns(pl.col(col).struct.unnest().name.prefix(prefix))
Unnest(t, col, prefix) ==
    Need(t, {col}, LAMBDA u :
        IF u.schema[col].k # "struct" THEN Error("SchemaError")
        ELSE
            LET f == u.schema[col].f
                new == {prefix \o n : n \in DOMAIN f}
                cols == Columns(u) \cup new
                Field(c) == CHOOSE n \in DOMAIN f : prefix \o n = c
            IN  Table([c \in cols |-> IF c \in new THEN f[Field(c)]
                                      ELSE u.schema[c]],
                      [i \in 1..Height(u) |->
                          [c \in cols |->
                              IF c \in new
                              THEN IF IsNull(u.rows[i][col]) THEN None
                                   ELSE Get(u.rows[i][col])[Field(c)]
                              ELSE u.rows[i][c]]]))

\* a variant of int_ranges that counts from one
int_ranges_from_one(n) == [k \in 1..n |-> Some(k)]

\* pl.int_ranges(n): the list 0, 1, ..., n-1
int_ranges(n) == [k \in 1..n |-> Some(k - 1)]

\* with_columns(name=pl.int_ranges(pl.col(col).list.len()))
WithListIndex(t, name, col) ==
    Need(t, {col}, LAMBDA u :
        WithColumn(u, name, TList(TScalar), LAMBDA row :
            IF IsNull(row[col]) THEN None
            ELSE Some(int_ranges(Len(Get(row[col]))))))

ListLen(cell) == IF IsNull(cell) THEN 0 ELSE Len(Get(cell))

\* a variant of explode that gives no row for a null or empty list
ExplodeDroppingNulls(t, cols) ==
    Need(t, cols, LAMBDA u :
        LET c0 == CHOOSE c \in cols : TRUE
        IN  Table([c \in Columns(u) |-> IF c \in cols THEN u.schema[c].e
                                        ELSE u.schema[c]],
                  FlatMap(u.rows, LAMBDA row :
                      [k \in 1..ListLen(row[c0]) |->
                          [c \in DOMAIN row |->
                              IF c \in cols THEN Get(row[c])[k] ELSE row[c]]])))

\* DataFrame.explode(*cols): one row per list element; a null or empty list
\* gives one row holding null
Explode(t, cols) ==
    Need(t, cols, LAMBDA u :
        IF \E i \in 1..Height(u), c \in cols, d \in cols :
              ListLen(u.rows[i][c]) # ListLen(u.rows[i][d])
        THEN Error("ShapeError")
        ELSE
            LET c0 == CHOOSE c \in cols : TRUE
                Rows(row) ==
                    IF ListLen(row[c0]) = 0
                    THEN <<[c \in DOMAIN row |->
                              IF c \in cols THEN None ELSE row[c]]>>
                    ELSE [k \in 1..ListLen(row[c0]) |->
                            [c \in DOMAIN row |->
                               IF c \in cols THEN Get(row[c])[k] ELSE row[c]]]
            IN  Table([c \in Columns(u) |-> IF c \in cols THEN u.schema[c].e
                                            ELSE u.schema[c]],
                      FlatMap(u.rows, Rows)))

\* DataFrame.filter(predicate), the predicate reading the columns cols:
\* keeps the rows where it is true
Filter(t, cols, Pred(_)) ==
    Need(t, cols, LAMBDA u :
        Table(u.schema,
              FlatMap(u.rows, LAMBDA row : IF Pred(row) THEN <<row>> ELSE <<>>)))

\* DataFrame.select(*names) over present names
Select(t, names) == Without(t, Columns(t) \ names)

\* the characters of the model's texts in code point order, the order polars
\* compares strings in
CharOrder ==
    <<"\t", "\n", " ", "(", ")", "+", ",", "-", ".", "/", "0", "1", "2",
      "3", "4", "5", "6", "7", "8", "9", ":", "A", "B", "C", "D", "E", "F",
      "G", "H", "I", "J", "K", "L", "M", "N", "O", "P", "Q", "R", "S", "T",
      "U", "V", "W", "X", "Y", "Z", "_", "a", "b", "c", "d", "e", "f", "g",
      "h", "i", "j", "k", "l", "m", "n", "o", "p", "q", "r", "s", "t", "u",
      "v", "w", "x", "y", "z">>

CharRank(ch) == CHOOSE k \in 1..Len(CharOrder) : CharOrder[k] = ch

RECURSIVE TextLess(_, _)
TextLess(a, b) ==
    IF Len(b) = 0 THEN FALSE
    ELSE IF Len(a) = 0 THEN TRUE
    ELSE IF a[1] = b[1] THEN TextLess(Tail(a), Tail(b))
    ELSE CharRank(a[1]) < CharRank(b[1])

\* the columns of an export that hold integers
IntColumns == {"utc_timezone_offset"}

\* the order of two different cells of column c in an ascending sort: nulls
\* come first
CellLess(c, a, b) ==
    IF IsNull(b) THEN FALSE
    ELSE IF IsNull(a) THEN TRUE
    ELSE IF c \in IntColumns THEN Get(a) < Get(b)
    ELSE TextLess(Get(a), Get(b))

RECURSIVE RowLess(_, _, _)
\* row r1 sorts before row r2 under the sort columns by
RowLess(by, r1, r2) ==
    IF Len(by) = 0 THEN FALSE
    ELSE IF r1[by[1]] = r2[by[1]] THEN RowLess(Tail(by), r1, r2)
    ELSE CellLess(by[1], r1[by[1]], r2[by[1]])

RECURSIVE InsertSorted(_, _, _)
InsertSorted(sorted, r, by) ==
    IF Len(sorted) = 0 THEN <<r>>
    ELSE IF RowLess(by, r, sorted[1]) THEN <<r>> \o sorted
    ELSE <<sorted[1]>> \o InsertSorted(Tail(sorted), r, by)

RECURSIVE SortRows(_, _)
SortRows(rows, by) ==
    IF Len(rows) = 0 THEN <<>>
    ELSE InsertSorted(SortRows(SubSeq(rows, 1, Len(rows) - 1), by),
                      rows[Len(rows)], by)

\* DataFrame.sort(by=by)
Sort(t, by) == IF t.raised # "" THEN t ELSE Table(t.schema, SortRows(t.rows, by))

\* the key of a join: every key column holds the same non-null value
\* (nulls do not match in a join)
JoinMatch(ra, rb, on) == \A c \in on : ~IsNull(ra[c]) /\ ra[c] = rb[c]

\* pl.concat([a, b], how="align"): a full join on the columns the two frames
\* share, the key columns coalesced, then sorted by those columns in the
\* order by
ConcatAlign(a, b, by) ==
    IF a.raised # "" THEN a
    ELSE IF b.raised # "" THEN b
    ELSE IF Columns(a) \cap Columns(b) = {} THEN Error("InvalidOperationError")
    ELSE
        LET on == Columns(a) \cap Columns(b)
            cols == Columns(a) \cup Columns(b)
            Partners(ra) == {j \in 1..Height(b) : JoinMatch(ra, b.rows[j], on)}
            Joined(ra, j) ==
                [c \in cols |-> IF c \in Columns(a) THEN ra[c] ELSE b.rows[j][c]]
            LeftOnly(ra) == [c \in cols |-> IF c \in Columns(a) THEN ra[c] ELSE None]
            RightOnly(rb) == [c \in cols |-> IF c \in Columns(b) THEN rb[c] ELSE None]
            Left(ra) ==
                IF Partners(ra) = {} THEN <<LeftOnly(ra)>>
                ELSE LET js == SelectSeq([j \in 1..Height(b) |-> j],
                                         LAMBDA j : j \in Partners(ra))
                     IN  [k \in 1..Len(js) |-> Joined(ra, js[k])]
            Right(rb) ==
                IF \E i \in 1..Height(a) : JoinMatch(a.rows[i], rb, on)
                THEN <<>> ELSE <<RightOnly(rb)>>
        IN  Sort(Table([c \in cols |-> IF c \in Columns(a) THEN a.schema[c]
                                      ELSE b.schema[c]],
                       FlatMap(a.rows, Left) \o FlatMap(b.rows, Right)),
                 SelectSeq(by, LAMBDA c : c \in on))

NotRun == [status |-> "none", out |-> NoTable]
Done(t) == [status |-> "done", out |-> t]

ExpandIdle ==
    /\ df = NoTable
    /\ long_response = NotRun
    /\ long_options = NotRun
    /\ scored = NotRun

ProcIdle == proc_in = NoTable /\ proc_name = "" /\ proc_out = NotRun

NoChain == [pc |-> "idle", queue |-> <<>>, ran |-> <<>>, report |-> <<>>,
            raised |-> ""]
ChainIdle == PROCESSORS = <<>> /\ declared = <<>> /\ chain = NoChain

NoConfig == [cmd |-> "", input_dir |-> [kind |-> "missing"],
             output_types |-> <<>>, output_format |-> ""]
NoRun == [pc |-> "idle", ml_data |-> "", ran |-> <<>>, attempted |-> <<>>,
          outputs |-> <<>>, raised |-> ""]
MainIdle == run_config = NoConfig /\ run = NoRun

WriterIdle ==
    /\ output = [name |-> "", output |-> NoTable, drop_null_columns |-> FALSE]
    /\ written = NotRun

NoProduce ==
    [pc |-> "idle", format |-> "", chain |-> <<>>, stack |-> <<>>, ran |-> <<>>]
LegacyIdle == legacy = NoProduce

OutputIdle == MainIdle /\ WriterIdle /\ LegacyIdle

-----------------------------------------------------------------------------
(* The processors of processors.py.  A _run is given a table and returns   *)
(* the set of tables it can produce (one, unless a text it parses has two  *)
(* readings of equal priority).                                            *)

\* the columns of a web export, as SubscaleProcessor lists them
ExportColumns ==
    {"target_id", "target_secret_id", "target_nickname", "target_tag",
     "source_id", "source_secret_id", "source_nickname", "source_tag",
     "source_relation", "input_id", "input_secret_id", "input_nickname",
     "userId", "secret_user_id", "applet_version", "activity_flow_id",
     "activity_flow_name", "activity_flow_submission_id", "activity_id",
     "activity_name", "activity_submission_id",
     "activity_schedule_history_id", "activity_start_time",
     "activity_end_time", "activity_schedule_id",
     "activity_schedule_start_time", "utc_timezone_offset",
     "activity_submission_review_id", "item_id", "item_name", "item_prompt",
     "item_response_options", "item_response", "item_response_status",
     "item_type", "rawScore"}

\* cs.ends_with("_time"), over the column names of an export
EndsWithTime(c) ==
    \E stem \in {"activity_start", "activity_end", "activity_schedule_start"} :
        c = stem \o "_time"

USER_SCHEMA == {"id", "secret_id", "nickname", "tag", "relation"}

DigitChar(d) == CHOOSE c \in Digits : DigitVal(c) = d

RECURSIVE IntText(_)
\* str(n) of a non-negative integer
IntText(n) == IF n < 10 THEN <<DigitChar(n)>>
              ELSE IntText(n \div 10) \o <<DigitChar(n % 10)>>

\* pl.col(c).cast(pl.String) of an integer cell
CastString(cell) == IF IsNull(cell) THEN None ELSE Some(IntText(Get(cell)))

\* pl.col(c).cast(pl.Int64, strict=False) of a text cell: null unless a number
CastInt64(cell) ==
    IF IsNull(cell) THEN None
    ELSE IF Get(cell) # <<>> /\ \A k \in 1..Len(Get(cell)) : Get(cell)[k] \in Digits
         THEN Some(ToInt(Get(cell)))
         ELSE None

\* pl.from_epoch(..., time_unit="ms").dt.replace_time_zone("UTC")
FromEpoch(cell) ==
    IF IsNull(cell) THEN None ELSE Some([epoch_ms |-> Get(cell), tz |-> "UTC"])

\* pl.duration(minutes=...)
DurationMinutes(cell) ==
    IF IsNull(cell) THEN None ELSE Some([minutes |-> Get(cell)])

RECURSIVE StripChars(_)
\* str.strip_chars(): without leading and trailing whitespace
StripChars(text) ==
    IF text # <<>> /\ Head(text) \in InlineWS \cup NewlineChars
    THEN StripChars(Tail(text))
    ELSE IF text # <<>> /\ text[Len(text)] \in InlineWS \cup NewlineChars
    THEN StripChars(SubSeq(text, 1, Len(text) - 1))
    ELSE text

\* the record parse returns, as a cell of type ResponseParser.datatype
RecordCell(rec) ==
    Some([type |-> rec.type, raw_value |-> rec.raw_value,
          null_value |-> rec.null_value,
          value |-> IF IsNull(rec.value) THEN None
                    ELSE Some([k \in 1..Len(Get(rec.value)) |->
                                  Some(Get(rec.value)[k])]),
          text |-> rec.text, file |-> rec.file, date |-> rec.date,
          time |-> rec.time, time_range |-> rec.time_range,
          geo |-> IF IsNull(rec.geo) THEN None
                  ELSE Some([latitude |-> Some(Get(rec.geo).latitude),
                             longitude |-> Some(Get(rec.geo).longitude)]),
          matrix |-> IF IsNull(rec.matrix) THEN None
                     ELSE Some([k \in 1..Len(Get(rec.matrix)) |->
                             Some([row |-> Some(Get(rec.matrix)[k].row),
                                   value |->
                                     Some([j \in 1..Len(Get(rec.matrix)[k].value) |->
                                             Some(Get(rec.matrix)[k].value[j])])])])])

\* ResponseParser.datatype
ResponseType ==
    TStruct([type |-> TScalar, raw_value |-> TScalar, null_value |-> TScalar,
             value |-> TList(TScalar), text |-> TScalar, file |-> TScalar,
             date |-> TScalar, time |-> TScalar, time_range |-> TScalar,
             geo |-> TStruct([latitude |-> TScalar, longitude |-> TScalar]),
             matrix |-> TList(TStruct([row |-> TScalar,
                                       value |-> TList(TScalar)]))])

\* the list parse returns, as a cell of type List(Struct(name, value, score))
OptionsCell(v) ==
    Some([k \in 1..Len(v) |->
            Some([name |-> Some(v[k].name), value |-> Some(v[k].value),
                  score |-> v[k].score])])

OptionsType ==
    TList(TStruct([name |-> TScalar, value |-> TScalar, score |-> TScalar]))

\* pl.col(col).str.strip_chars().map_elements(parse, dtype) over a column:
\* the lists of cells it can give, one outcome per row; nulls are passed by
MapElements(t, col, Outcomes(_)) ==
    LET Of(i) == IF IsNull(t.rows[i][col])
                 THEN {[raised |-> "", cell |-> None]}
                 ELSE Outcomes(StripChars(Get(t.rows[i][col])))
    IN  {f \in [1..Height(t) -> UNION {Of(i) : i \in 1..Height(t)}] :
            \A i \in 1..Height(t) : f[i] \in Of(i)}

\* the table built from one such list, or the first row's exception
FromOutcomes(f, Build(_)) ==
    IF \E i \in DOMAIN f : f[i].raised # ""
    THEN Error(f[CHOOSE i \in DOMAIN f :
                    /\ f[i].raised # ""
                    /\ \A j \in DOMAIN f : f[j].raised # "" => i <= j].raised)
    ELSE Build([i \in DOMAIN f |-> f[i].cell])

\* a variant of DropLegacyUserIdProcessor._run that calls drop_nulls for drop
DropLegacyUserIdProcessor_run_drop_nulls(report) ==
    {IF "legacy_user_id" \in Columns(report)
     THEN Filter(report, {"legacy_user_id"},
                 LAMBDA row : ~IsNull(row["legacy_user_id"]))
     ELSE report}

DropLegacyUserIdProcessor_run(report) ==
    {IF "legacy_user_id" \in Columns(report)
     THEN Drop(report, {"legacy_user_id"})
     ELSE report}

ColumnCastingProcessor_run(report) ==
    {Need(report, {"rawScore"}, LAMBDA u :
        WithColumn(u, "rawScore", TScalar,
                   LAMBDA row : CastString(row["rawScore"])))}

\* with_columns(expr over several existing columns), each overwritten in place
MapCells(t, cols, Expr(_)) ==
    Table(t.schema,
          [i \in 1..Height(t) |->
              [c \in Columns(t) |-> IF c \in cols THEN Expr(t.rows[i][c])
                                    ELSE t.rows[i][c]]])

\* a variant of DateTimeProcessor._run whose cast is strict: a cell that is
\* no number is an error
DateTimeProcessor_run_strict(report) ==
    {Need(report, {"utc_timezone_offset"}, LAMBDA u :
        IF \E i \in 1..Height(u), c \in {d \in Columns(u) : EndsWithTime(d)} :
              ~IsNull(u.rows[i][c]) /\ IsNull(CastInt64(u.rows[i][c]))
        THEN Error("InvalidOperationError")
        ELSE MapCells(MapCells(u, {c \in Columns(u) : EndsWithTime(c)},
                               LAMBDA cell : FromEpoch(CastInt64(cell))),
                      {"utc_timezone_offset"}, DurationMinutes))}

DateTimeProcessor_run(report) ==
    {Need(report, {"utc_timezone_offset"}, LAMBDA u :
        MapCells(MapCells(u, {c \in Columns(u) : EndsWithTime(c)},
                          LAMBDA cell : FromEpoch(CastInt64(cell))),
                 {"utc_timezone_offset"}, DurationMinutes))}

\* with_columns(name=pl.struct(pl.col(source).alias(field), ...)).drop(sources):
\* fields maps each field name to the column it is taken from
StructOf(t, name, fields) ==
    LET sources == {fields[f] : f \in DOMAIN fields}
    IN  Need(t, sources, LAMBDA u :
            Drop(WithColumn(u, name,
                            TStruct([f \in DOMAIN fields |-> u.schema[fields[f]]]),
                            LAMBDA row : Some([f \in DOMAIN fields |-> row[fields[f]]])),
                 sources))

\* ResponseStructProcessor._run, the parsed record held under the field
\* named field
ResponseStruct(report, field) ==
    LET cols == {"item_response_status", "rawScore", "item_response"}
        names == {"status", "raw_score", field}
        Build(cells) ==
            Drop(WithCells(report, "response",
                           TStruct([f \in names |->
                                       IF f = field THEN ResponseType ELSE TScalar]),
                           [i \in 1..Height(report) |->
                               Some([f \in names |->
                                   IF f = field THEN cells[i]
                                   ELSE IF f = "status"
                                   THEN report.rows[i]["item_response_status"]
                                   ELSE report.rows[i]["rawScore"]])]),
                 cols)
    IN  IF report.raised # "" THEN {report}
        ELSE IF ~(cols \subseteq Columns(report))
        THEN {Error("ColumnNotFoundError")}
        ELSE {FromOutcomes(f, Build) :
                f \in MapElements(report, "item_response",
                        LAMBDA text : {[raised |-> o.raised, cell |-> RecordCell(o.rec)] :
                                          o \in ParseOutcomes(text)})}

\* pl.struct names the third field after the column it is computed from
ResponseStructProcessor_run(report) == ResponseStruct(report, "item_response")

\* with_columns(name=pl.struct(cs.starts_with(prefix) with the prefix taken
\* off the names, schema=USER_SCHEMA))
UserStructOf(t, name, prefix) ==
    WithColumn(t, name, TStruct([f \in USER_SCHEMA |-> TScalar]),
               LAMBDA row : Some([f \in USER_SCHEMA |->
                                    IF prefix \o f \in DOMAIN row
                                    THEN row[prefix \o f] ELSE None]))

UserStructProcessor_run(report) ==
    {Need(report, {"userId", "secret_user_id"}, LAMBDA u :
        LET prefixed == {c \in Columns(u) :
                            \E pre \in {"target_", "source_", "input_"},
                               f \in USER_SCHEMA : c = pre \o f}
            users == UserStructOf(UserStructOf(UserStructOf(u,
                         "target_user", "target_"),
                         "source_user", "source_"),
                         "input_user", "input_")
            account == WithColumn(users, "account_user",
                           TStruct([f \in USER_SCHEMA |-> TScalar]),
                           LAMBDA row : Some([f \in USER_SCHEMA |->
                               IF f = "id" THEN row["userId"]
                               ELSE IF f = "secret_id" THEN row["secret_user_id"]
                               ELSE None]))
        IN  Drop(account, prefixed \cup {"userId", "secret_user_id"}))}

ItemStructProcessor_run(report) ==
    LET cols == {"item_id", "item_name", "item_prompt", "item_type",
                 "item_response_options"}
        Build(cells) ==
            Drop(WithCells(report, "item",
                           TStruct([id |-> TScalar, name |-> TScalar,
                                    prompt |-> TScalar, type |-> TScalar,
                                    raw_options |-> TScalar,
                                    response_options |-> OptionsType]),
                           [i \in 1..Height(report) |->
                               Some([id |-> report.rows[i]["item_id"],
                                     name |-> report.rows[i]["item_name"],
                                     prompt |-> report.rows[i]["item_prompt"],
                                     type |-> report.rows[i]["item_type"],
                                     raw_options |->
                                         report.rows[i]["item_response_options"],
                                     response_options |-> cells[i]])]),
                 cols)
    IN  IF report.raised # "" THEN {report}
        ELSE IF ~(cols \subseteq Columns(report))
        THEN {Error("ColumnNotFoundError")}
        ELSE {FromOutcomes(f, Build) :
                f \in MapElements(report, "item_response_options",
                        LAMBDA text : {[raised |-> o.raised, cell |-> OptionsCell(o.v)] :
                                          o \in OptionOutcomes(text)})}

ActivityFlowStructProcessor_run(report) ==
    {StructOf(report, "activity_flow",
              [id |-> "activity_flow_id", name |-> "activity_flow_name",
               submission_id |-> "activity_flow_submission_id"])}

ActivityStructProcessor_run(report) ==
    {StructOf(report, "activity",
              [id |-> "activity_id", name |-> "activity_name",
               submission_id |-> "activity_submission_id",
               submission_review_id |-> "activity_submission_review_id",
               start_time |-> "activity_start_time",
               end_time |-> "activity_end_time"])}

ActivityScheduleStructProcessor_run(report) ==
    {StructOf(report, "activity_schedule",
              [id |-> "activity_schedule_id",
               history_id |-> "activity_schedule_history_id",
               start_time |-> "activity_schedule_start_time"])}

\* SubscaleProcessor._run: df_cols is ExportColumns
response_cols ==
    {"item_id", "item_name", "item_prompt", "item_response_options",
     "item_response", "item_response_status", "item_type", "rawScore"}

L_subscale_ == <<"s", "u", "b", "s", "c", "a", "l", "e", "_">>
L_subscale_name_ == <<"s", "u", "b", "s", "c", "a", "l", "e", "_", "n", "a", "m", "e", "_">>
L_subscale == <<"s", "u", "b", "s", "c", "a", "l", "e">>

\* the score columns an export can carry, and their names as text
SubscaleNames == {"activity_score", "activity_score_lookup_text", "subscale_name_a"}
ColumnText(c) ==
    CASE c = "activity_score" -> <<"a", "c", "t", "i", "v", "i", "t", "y", "_", "s", "c", "o", "r", "e">>
      [] c = "activity_score_lookup_text" ->
            <<"a", "c", "t", "i", "v", "i", "t", "y", "_", "s", "c", "o", "r", "e", "_", "l", "o", "o", "k", "u", "p", "_", "t", "e", "x", "t">>
      [] c = "subscale_name_a" -> <<"s", "u", "b", "s", "c", "a", "l", "e", "_", "n", "a", "m", "e", "_", "a">>

\* the score columns that hold numbers; the lookup text holds strings
NumericSubscale == {"activity_score", "subscale_name_a"}

StartsWith(text, prefix) ==
    Len(text) >= Len(prefix) /\ SubSeq(text, 1, Len(prefix)) = prefix

\* cs.starts_with("subscale_") | cs.by_name({"activity_score",
\* "activity_score_lookup_text"}) over the columns of report; no column of
\* df_cols starts with subscale_
ss_value_cs(report) ==
    {c \in Columns(report) \cap SubscaleNames :
        \/ StartsWith(ColumnText(c), L_subscale_)
        \/ c \in {"activity_score", "activity_score_lookup_text"}}

RECURSIVE SetToSeq(_)
\* the elements of a set in one order
SetToSeq(S) ==
    IF S = {} THEN <<>>
    ELSE LET x == CHOOSE y \in S : TRUE IN <<x>> \o SetToSeq(S \ {x})

\* the value column of unpivot has the supertype of the unpivoted columns and
\* is cast to String in the end: a number becomes its text
UnpivotValue(c, cell) == IF c \in NumericSubscale THEN CastString(cell) ELSE cell

\* DataFrame.unpivot(on, index, variable_name, value_name): one row for each
\* unpivoted column and each row; with nothing selected by on, every column
\* outside index is unpivoted.  The frames are sorted by every column
\* afterwards, so the order of the rows given here does not show.
Unpivot(t, on, index, variable_name, value_name) ==
    IF t.raised # "" THEN t
    ELSE IF ~(index \subseteq Columns(t)) THEN Error("ColumnNotFoundError")
    ELSE
        LET used == IF on = {} THEN Columns(t) \ index ELSE on
            cols == index \cup {variable_name, value_name}
            ons == SetToSeq(used)
            Of(c) == [i \in 1..Height(t) |->
                        [d \in cols |->
                            IF d = variable_name THEN Some(ColumnText(c))
                            ELSE IF d = value_name THEN UnpivotValue(c, t.rows[i][c])
                            ELSE t.rows[i][d]]]
        IN  Table([d \in cols |-> TScalar],
                  Concat([k \in 1..Len(ons) |-> Of(ons[k])]))

\* str.replace(pattern, ""): the text without its first match of a literal
ReplaceFirst(text, pattern) ==
    LET at == {i \in 1..(Len(text) - Len(pattern) + 1) :
                  SubSeq(text, i, i + Len(pattern) - 1) = pattern}
    IN  IF at = {} THEN text
        ELSE LET i == CHOOSE j \in at : \A k \in at : j <= k
             IN  SubSeq(text, 1, i - 1) \o SubSeq(text, i + Len(pattern), Len(text))

\* ssdf: the score columns unpivoted into response rows; non_null is the
\* filter on item_response
ssdf(report, non_null) ==
    LET nulled == response_cols \ {"item_id", "item_name", "item_response", "item_type"}
        up == Unpivot(Without(report, response_cols), ss_value_cs(report),
                      ExportColumns \ response_cols, "item_id", "item_response")
        kept == IF non_null
                THEN Filter(up, {"item_response"},
                            LAMBDA row : ~IsNull(row["item_response"]))
                ELSE up
    IN  IF kept.raised # "" THEN kept
        ELSE Table([c \in Columns(kept) \cup {"item_type", "item_name"} \cup nulled |->
                       TScalar],
                   [i \in 1..Height(kept) |->
                       [c \in Columns(kept) \cup {"item_type", "item_name"} \cup nulled |->
                           IF c = "item_type" THEN Some(L_subscale)
                           ELSE IF c = "item_name"
                           THEN Some(ReplaceFirst(Get(kept.rows[i]["item_id"]),
                                                  L_subscale_name_))
                           ELSE IF c \in nulled THEN None
                           ELSE kept.rows[i][c]]])

\* list(set) iterates a set of strings in the order of their hashes, which
\* changes from one process to the next: index and the nulled columns come
\* in any order, and with them the columns concat sorts by.  The rows of one
\* table of the model differ in no other index column than these two and in
\* no other nulled column than these two, so only their order shows.
VaryingIndex == {"target_id", "activity_id"}
VaryingNulled == {"rawScore", "item_response_status"}

Orders(S, varying) ==
    {p \o SetToSeq(S \ varying) :
        p \in {f \in [1..Cardinality(varying) -> varying] :
                  \A i, j \in DOMAIN f : f[i] = f[j] => i = j}}

\* the columns of ssdf in order, which is the order concat sorts by
SortOrders ==
    {ix \o <<"item_id", "item_response", "item_type", "item_name">> \o nl :
        ix \in Orders(ExportColumns \ response_cols, VaryingIndex),
        nl \in Orders(response_cols \ {"item_id", "item_name", "item_response",
                                       "item_type"}, VaryingNulled)}

\* whether cs.by_name raises for a name that is no column depends on the
\* polars version: both outcomes are given
subscale_run(report, non_null) ==
    IF report.raised # "" THEN {report}
    ELSE {ConcatAlign(Without(report, ss_value_cs(report)),
                      ssdf(report, non_null), by) : by \in SortOrders}
         \cup (IF {"activity_score", "activity_score_lookup_text"}
                     \subseteq Columns(report)
               THEN {} ELSE {Error("ColumnNotFoundError")})

\* a variant of SubscaleProcessor._run without the filter on item_response
SubscaleProcessor_run_keep_nulls(report) == subscale_run(report, FALSE)

SubscaleProcessor_run(report) == subscale_run(report, TRUE)

\* the processors of processors.py other than Subscale, by NAME
StandardProcessors ==
    {"DropLegacyUserId", "ColumnCasting", "DateTime", "ResponseStruct",
     "UserStruct", "ItemStruct", "ActivityFlowStruct", "ActivityStruct",
     "ActivityScheduleStruct"}

\* proc()._run(report) of the processor named name
Run(name, report) ==
    CASE name = "DropLegacyUserId" -> DropLegacyUserIdProcessor_run(report)
      [] name = "ColumnCasting" -> ColumnCastingProcessor_run(report)
      [] name = "DateTime" -> DateTimeProcessor_run(report)
      [] name = "ResponseStruct" -> ResponseStructProcessor_run(report)
      [] name = "UserStruct" -> UserStructProcessor_run(report)
      [] name = "ItemStruct" -> ItemStructProcessor_run(report)
      [] name = "ActivityFlowStruct" -> ActivityFlowStructProcessor_run(report)
      [] name = "ActivityStruct" -> ActivityStructProcessor_run(report)
      [] name = "ActivityScheduleStruct" ->
            ActivityScheduleStructProcessor_run(report)
      [] name = "Subscale" -> SubscaleProcessor_run(report)

-----------------------------------------------------------------------------
(* The tables one processor is run on: a web export with at most one       *)
(* column left out, with or without the legacy column, of up to MaxRows    *)
(* rows.                                                                   *)

RowKinds ==
    {[response |-> Some(<<"v", "a", "l", "u", "e", ":", " ", "1", ",", " ", "2">>), options |-> Some(<<"a", ":", " ", "1", ",", " ", "b", ":", " ", "2">>),
      legacy |-> Some("u1"), rawScore |-> Some(3), time |-> Some(<<"1", "0", "0", "0">>)],
     [response |-> Some(<<"d", "a", "t", "e", ":", " ", "3", "1", "/", "2", "/", "2", "1">>), options |-> None,
      legacy |-> None, rawScore |-> None, time |-> Some(<<"n", "o", "t", " ", "s", "c", "h", "e", "d", "u", "l", "e", "d">>)],
     [response |-> Some(<<" ", "t", "e", "x", "t", ":", " ", "a">>), options |-> Some(<<"M", "a", "x", ":", " ", "1", ",", " ", "M", "i", "n", ":", " ", "0">>),
      legacy |-> None, rawScore |-> Some(10), time |-> Some(<<"1", "0", "0", "0">>)],
     [response |-> None, options |-> Some(<<"a", ":", " ", "1", " ", "(", "s", "c", "o", "r", "e", ":", " ", "2", ")">>),
      legacy |-> Some("u2"), rawScore |-> None, time |-> None]}

FlatRow(kind, cols) ==
    [c \in cols |->
        CASE c = "item_response" -> kind.response
          [] c = "item_response_options" -> kind.options
          [] c = "legacy_user_id" -> kind.legacy
          [] c = "rawScore" -> kind.rawScore
          [] c = "utc_timezone_offset" -> Some(60)
          [] EndsWithTime(c) -> kind.time
          [] OTHER -> Some(c)]

FlatTable(cols, kinds) ==
    Table([c \in cols |-> TScalar],
          [i \in 1..Len(kinds) |-> FlatRow(kinds[i], cols)])

Missable ==
    {"rawScore", "userId", "activity_end_time", "target_tag",
     "utc_timezone_offset"}

ProcSchemas ==
    {(ExportColumns \ m) \cup l :
        m \in {{}} \cup {{c} : c \in Missable},
        l \in {{}, {"legacy_user_id"}}}

RowLists(kinds, n) == UNION {[1..k -> kinds] : k \in 0..n}

ProcTables ==
    {FlatTable(cols, kinds) :
        cols \in ProcSchemas, kinds \in RowLists(RowKinds, MaxRows)}

(* Specification of one processor run on one table. *)

InitProc ==
    /\ proc_in \in ProcTables
    /\ proc_name \in StandardProcessors
    /\ proc_out = NotRun
    /\ ParserIdle /\ OptionsIdle /\ ExpandIdle /\ ChainIdle /\ OutputIdle

\* ReportProcessor.process(report)
ReportProcessor_process ==
    /\ proc_out.status = "none"
    /\ \E out \in Run(proc_name, proc_in) : proc_out' = Done(out)
    /\ UNCHANGED outputVars
    /\ UNCHANGED <<response, parsed, options, parsed_options, df,
                   long_response, long_options, scored, proc_in, proc_name,
                   PROCESSORS, declared, chain>>

NextProc == ReportProcessor_process

SpecProc == InitProc /\ [][NextProc]_vars

Returned_process == proc_out.status = "done" /\ proc_out.out.raised = ""

\* C8: a table returned by a processor other than Subscale has as many rows
\* as the table the processor was given.
C8_RowCountPreserved ==
    Returned_process => Height(proc_out.out) = Height(proc_in)

\* C8 witness: ItemStruct, which parses a list of options in each row, has
\* returned a table for a table of two rows.
C8_Witness ==
    /\ Returned_process
    /\ proc_name = "ItemStruct"
    /\ Height(proc_in) = 2
    /\ "item" \in Columns(proc_out.out)

\* C9: a table returned by a processor other than Subscale has every column
\* name of the table the processor was given.
C9_ColumnsRetained ==
    Returned_process => Columns(proc_in) \subseteq Columns(proc_out.out)

-----------------------------------------------------------------------------
(* The expansion engine of mindlogger.py and the scored output of          *)
(* outputs.py.                                                             *)

\* a variant of these steps that counts the values of a matrix row from one
ExpandValueAndMatrix_matrix_index_from_one(t) ==
    LET c == WithListIndex(t, "response_value_value_index",
                           "response_value_value")
        d == Explode(c, {"response_value_value", "response_value_value_index"})
        e == Unnest(d, "response_value_geo", "response_value_geo_")
        f == Explode(e, {"response_value_matrix"})
        g == Unnest(f, "response_value_matrix", "response_value_matrix_")
        h == Need(g, {"response_value_matrix_value"}, LAMBDA u :
                 WithColumn(u, "response_value_matrix_value_index",
                            TList(TScalar), LAMBDA row :
                     IF IsNull(row["response_value_matrix_value"]) THEN None
                     ELSE Some(int_ranges_from_one(
                              Len(Get(row["response_value_matrix_value"]))))))
        i == Explode(h, {"response_value_matrix_value",
                         "response_value_matrix_value_index"})
    IN  IF i.raised # "" THEN i
        ELSE Without(i, {"response_value_matrix", "response_value_geo"})

\* the steps of expand_responses after the two unnests, int_ranges being the
\* index expression
ExpandValueAndMatrix(t) ==
    LET c == WithListIndex(t, "response_value_value_index",
                           "response_value_value")
        d == Explode(c, {"response_value_value", "response_value_value_index"})
        e == Unnest(d, "response_value_geo", "response_value_geo_")
        f == Explode(e, {"response_value_matrix"})
        g == Unnest(f, "response_value_matrix", "response_value_matrix_")
        h == WithListIndex(g, "response_value_matrix_value_index",
                           "response_value_matrix_value")
        i == Explode(h, {"response_value_matrix_value",
                         "response_value_matrix_value_index"})
    IN  IF i.raised # "" THEN i
        ELSE Without(i, {"response_value_matrix", "response_value_geo"})

\* MindloggerData.expand_responses(df)
expand_responses(t) ==
    ExpandValueAndMatrix(
        Unnest(Unnest(t, "response", "response_"),
               "response_value", "response_value_"))

\* pl.col(col).struct.field(name) of one row
StructField(row, col, name) ==
    IF IsNull(row[col]) THEN None ELSE Get(row[col])[name]

\* MindloggerData.expand_options(df)
expand_options(t) ==
    Explode(
        Need(t, {"item"}, LAMBDA u :
            IF u.schema["item"].k # "struct"
               \/ "response_options" \notin DOMAIN u.schema["item"].f
            THEN Error("StructFieldNotFoundError")
            ELSE WithColumn(u, "item_response_options",
                            u.schema["item"].f["response_options"],
                            LAMBDA row : StructField(row, "item", "response_options"))),
        {"item_response_options"})

\* MindloggerData.long_report, given long_response_report
long_report(long_response_report) == expand_options(long_response_report)

\* ScoredResponsesFormat._format, given data.long_report
ScoredResponsesFormat_format(report) ==
    Filter(report, {"item_option_value", "item_response_value"},
           LAMBDA row : CastString(row["item_option_value"])
                          = row["item_response_value"])

(* The tables the expansion is run on: up to MaxRows rows of a version     *)
(* column, the response struct and the item struct.  The parsed record is  *)
(* held in the response struct under the name RESPONSE_SCHEMA declares     *)
(* (value) or under the name ResponseStructProcessor._run gives it.        *)

ValueFieldNames == {"value", "item_response"}

ExpandKinds ==
    {[response |-> Some(<<"v", "a", "l", "u", "e", ":", " ", "1">>),
      options |-> Some(<<"a", ":", " ", "1", ",", " ", "b", ":", " ", "2">>)],
     [response |-> Some(<<"v", "a", "l", "u", "e", ":", " ", "1", ",", " ", "2">>),
      options |-> Some(<<"a", ":", " ", "1", ",", " ", "b", ":", " ", "2">>)],
     [response |-> Some(<<"v", "a", "l", "u", "e", ":", " ", "2", ",", " ", "0", ",", " ", "1">>),
      options |-> Some(<<"M", "a", "x", ":", " ", "2", ",", " ", "M", "i", "n", ":", " ", "0">>)],
     [response |-> Some(<<"v", "a", "l", "u", "e", ":", " ", "3">>),
      options |-> Some(<<"a", ":", " ", "1", " ", "(", "s", "c", "o", "r", "e", ":", " ", "5", ")", ",", " ", "b", ":", " ", "2", " ", "(", "s", "c", "o", "r", "e", ":", " ", "0", ")">>)],
     [response |-> Some(<<"t", "e", "x", "t", ":", " ", "a">>),
      options |-> None],
     [response |-> Some(<<"v", "a", "l", "u", "e", ":", " ", "n", "u", "l", "l">>),
      options |-> Some(<<"a", ":", " ", "1", ",", " ", "b", ":", " ", "2">>)],
     [response |-> Some(<<"a", "/", "b", ".", "m", "p", "4">>),
      options |-> None],
     [response |-> Some(<<"d", "a", "t", "e", ":", " ", "1", "/", "2", "/", "2", "1">>),
      options |-> None],
     [response |-> Some(<<"t", "i", "m", "e", ":", " ", "h", "r", " ", "9", " ", "m", "i", "n", " ", "3", "0">>),
      options |-> None],
     [response |-> Some(<<"t", "i", "m", "e", "_", "r", "a", "n", "g", "e", ":", " ", "f", "r", "o", "m", " ", "h", "r", " ", "9", " ", "m", "i", "n", " ", "3", "0", " ", "/", " ", "t", "o", " ", "h", "r", " ", "1", "2", " ", "m", "i", "n", " ", "5">>),
      options |-> None],
     [response |-> Some(<<"g", "e", "o", ":", " ", "l", "a", "t", " ", "4", "0", ".", "7", "1", "2", "8", " ", "l", "o", "n", "g", " ", "-", "7", "4", ".", "0", "0", "6", "0">>),
      options |-> None],
     [response |-> Some(<<"a", "b", "c">>),
      options |-> None],
     [response |-> Some(<<"r", "o", "w", "1", ":", " ", "1", ",", " ", "2", "\n", "r", "o", "w", "2", ":", " ", "2">>),
      options |-> Some(<<"a", ":", " ", "1", ",", " ", "b", ":", " ", "2">>)],
     [response |-> Some(<<"a", ":", " ", "2", "\n", "r", "o", "w", "1", ":", " ", "1", ",", " ", "2", "\n", "r", "o", "w", "2", ":", " ", "1">>),
      options |-> None],
     [response |-> None,
      options |-> Some(<<"a", ":", " ", "1", ",", " ", "b", ":", " ", "2">>)]}

\* the cells ResponseStructProcessor and ItemStructProcessor parse the texts
\* of one row into
ExpandCells ==
    UNION {{[response |-> r, options |-> o] :
                r \in IF IsNull(k.response) THEN {None}
                      ELSE {RecordCell(p.rec) :
                               p \in {q \in ParseOutcomes(Get(k.response)) :
                                         q.raised = ""}},
                o \in IF IsNull(k.options) THEN {None}
                      ELSE {OptionsCell(p.v) :
                               p \in {q \in OptionOutcomes(Get(k.options)) :
                                         q.raised = ""}}} :
           k \in ExpandKinds}

ExpandRow(cells, field) ==
    [applet_version |-> Some("1.0.0"),
     response |-> Some([f \in {"status", "raw_score", field} |->
                          IF f = field THEN cells.response
                          ELSE IF f = "status" THEN Some("completed")
                          ELSE None]),
     item |-> Some([id |-> Some("item_id"), name |-> Some("item_name"),
                    prompt |-> Some("item_prompt"), type |-> Some("item_type"),
                    raw_options |-> Some("item_response_options"),
                    response_options |-> cells.options])]

ExpandTable(cells, field) ==
    Table([applet_version |-> TScalar,
           response |-> TStruct([f \in {"status", "raw_score", field} |->
                                   IF f = field THEN ResponseType ELSE TScalar]),
           item |-> TStruct([id |-> TScalar, name |-> TScalar,
                             prompt |-> TScalar, type |-> TScalar,
                             raw_options |-> TScalar,
                             response_options |-> OptionsType])],
          [i \in 1..Len(cells) |-> ExpandRow(cells[i], field)])

ExpandTables ==
    {ExpandTable(cells, field) :
        cells \in RowLists(ExpandCells, MaxRows), field \in ValueFieldNames}

(* Specification of the expansions of one table. *)

InitExpand ==
    /\ df \in ExpandTables
    /\ long_response = NotRun
    /\ long_options = NotRun
    /\ scored = NotRun
    /\ ParserIdle /\ OptionsIdle /\ ProcIdle /\ ChainIdle /\ OutputIdle

\* MindloggerData.long_response_report, a cached property
long_response_report ==
    /\ long_response.status = "none"
    /\ long_response' = Done(expand_responses(df))
    /\ UNCHANGED outputVars
    /\ UNCHANGED <<response, parsed, options, parsed_options, df,
                   long_options, scored, proc_in, proc_name, proc_out,
                   PROCESSORS, declared, chain>>

\* MindloggerData.long_options_report, a cached property
long_options_report ==
    /\ long_options.status = "none"
    /\ long_options' = Done(expand_options(df))
    /\ UNCHANGED outputVars
    /\ UNCHANGED <<response, parsed, options, parsed_options, df,
                   long_response, scored, proc_in, proc_name, proc_out,
                   PROCESSORS, declared, chain>>

\* ScoredResponsesFormat.produce(data): reads data.long_report, which reads
\* data.long_response_report
ScoredResponsesFormat_produce ==
    /\ scored.status = "none"
    /\ LET lr == IF long_response.status = "done" THEN long_response.out
                 ELSE expand_responses(df)
       IN  /\ long_response' = Done(lr)
           /\ scored' = Done(ScoredResponsesFormat_format(long_report(lr)))
    /\ UNCHANGED outputVars
    /\ UNCHANGED <<response, parsed, options, parsed_options, df,
                   long_options, proc_in, proc_name, proc_out,
                   PROCESSORS, declared, chain>>

NextExpand ==
    \/ long_response_report
    \/ long_options_report
    \/ ScoredResponsesFormat_produce

SpecExpand == InitExpand /\ [][NextExpand]_vars

(* Properties of the expansions. *)

Expanded == long_response.status = "done" /\ long_response.out.raised = ""

\* the parsed record of an input row, as its fields; all null for a null cell
RecordOf(row) ==
    IF IsNull(Get(row["response"])["value"]) THEN DEFAULT_SCHEMA
    ELSE Get(Get(row["response"])["value"])

RECURSIVE SumOver(_, _)
\* the sum of f[1], ..., f[n]
SumOver(f, n) == IF n = 0 THEN 0 ELSE f[n] + SumOver(f, n - 1)

\* the number of values a response holds: those of its list, or those of all
\* its matrix rows; a response holding none counts once
ValueCount(rec) ==
    IF ListLen(rec.value) > 0 THEN ListLen(rec.value)
    ELSE IF ListLen(rec.matrix) > 0
    THEN SumOver([k \in 1..ListLen(rec.matrix) |->
                      IF ListLen(Get(Get(rec.matrix)[k]).value) > 0
                      THEN ListLen(Get(Get(rec.matrix)[k]).value) ELSE 1],
                 ListLen(rec.matrix))
    ELSE 1

\* the number of output rows that stand before those of input row i
RowsBefore(i) ==
    SumOver([j \in 1..Height(df) |-> ValueCount(RecordOf(df.rows[j]))], i - 1)

\* C3: an input row whose response is a Value with a list of N >= 1 integers
\* stands in the output as exactly N consecutive rows, in list order: the
\* k-th of them (from 0) has the k-th element as its value and k as its
\* value index, and all N agree with the input row on every input column
\* and with each other on every column but those two.
C3_ValueRows ==
    Expanded =>
        /\ Height(long_response.out) = RowsBefore(Height(df) + 1)
        /\ \A i \in 1..Height(df) :
              LET rec == RecordOf(df.rows[i])
                  N == ListLen(rec.value)
                  out == long_response.out
                  at == RowsBefore(i)
              IN  (rec.type = Some("value") /\ N >= 1) =>
                     /\ RowsBefore(i + 1) = at + N
                     /\ \A k \in 1..N :
                           /\ out.rows[at + k]["response_value_value"]
                                 = Get(rec.value)[k]
                           /\ out.rows[at + k]["response_value_value_index"]
                                 = Some(k - 1)
                           /\ \A c \in Columns(df) :
                                 out.rows[at + k][c] = df.rows[i][c]
                           /\ \A c \in Columns(out)
                                    \ {"response_value_value",
                                       "response_value_value_index"} :
                                 out.rows[at + k][c] = out.rows[at + 1][c]

\* C3 witness: a row with a list of three integers has been expanded, and
\* the third of its rows has value index 2.
C3_Witness ==
    /\ Expanded
    /\ \E i \in 1..Height(df) :
          /\ RecordOf(df.rows[i]).type = Some("value")
          /\ ListLen(RecordOf(df.rows[i]).value) = 3
          /\ long_response.out.rows[RowsBefore(i) + 3]["response_value_value_index"]
                = Some(2)

\* the variants that populate neither value nor matrix
ScalarVariants ==
    {"raw_value", "text", "null_value", "file", "date", "time", "time_range",
     "geo"}

\* C4: an input row whose response variant populates neither value nor
\* matrix stands in the output as exactly one row, which agrees with the
\* input row on every input column and has null value, value index, matrix
\* row, matrix value and matrix value index.
C4_ScalarRowKept ==
    Expanded =>
        /\ Height(long_response.out) = RowsBefore(Height(df) + 1)
        /\ \A i \in 1..Height(df) :
              LET rec == RecordOf(df.rows[i])
                  row == long_response.out.rows[RowsBefore(i) + 1]
              IN  (\E v \in ScalarVariants : rec.type = Some(v)) =>
                     /\ RowsBefore(i + 1) = RowsBefore(i) + 1
                     /\ \A c \in Columns(df) : row[c] = df.rows[i][c]
                     /\ \A c \in {"response_value_value",
                                  "response_value_value_index",
                                  "response_value_matrix_row",
                                  "response_value_matrix_value",
                                  "response_value_matrix_value_index"} :
                           IsNull(row[c])

\* C4 witness: a geo response has been expanded into one row that carries
\* its latitude.
C4_Witness ==
    /\ Expanded
    /\ \E i \in 1..Height(df) :
          /\ RecordOf(df.rows[i]).type = Some("geo")
          /\ ~IsNull(long_response.out.rows[RowsBefore(i) + 1]
                        ["response_value_geo_latitude"])

\* C5: the table expand_options returns has the option unnested into
\* sibling name, value and score columns, and no two of its rows are equal.
C5_OptionsUnnestedUnique ==
    (long_options.status = "done" /\ long_options.out.raised = "") =>
        /\ \E prefix \in {"item_option_", "item_response_options_", "option_"} :
              {prefix \o f : f \in {"name", "value", "score"}}
                 \subseteq Columns(long_options.out)
        /\ \A i \in 1..Height(long_options.out),
              j \in 1..Height(long_options.out) :
                 i # j => long_options.out.rows[i] # long_options.out.rows[j]

\* C6: the scored output is produced, and holds every expanded response row
\* exactly once, in order, with the option's name and score beside it.
C6_ScoredKeepsEveryRow ==
    scored.status = "done" =>
        /\ scored.out.raised = ""
        /\ long_response.out.raised = ""
        /\ {"item_option_name", "item_option_score"} \subseteq Columns(scored.out)
        /\ Height(scored.out) = Height(long_response.out)
        /\ \A k \in 1..Height(scored.out), c \in Columns(long_response.out) :
              scored.out.rows[k][c] = long_response.out.rows[k][c]

-----------------------------------------------------------------------------
(* The processor registry of processors.py and the default chain of        *)
(* MindloggerData.load_web_export.  A processor class is its NAME, its     *)
(* PRIORITY and its ENABLE attribute, "unset" when the class has none.     *)

Class(name, priority) == [NAME |-> name, PRIORITY |-> priority, ENABLE |-> "unset"]

\* the subclasses processors.py defines, in the order it defines them
BuiltIn ==
    <<Class("DropLegacyUserId", 0), Class("ColumnCasting", 0),
      Class("DateTime", 8), Class("ResponseStruct", 10),
      Class("UserStruct", 10), Class("ItemStruct", 10),
      Class("ActivityFlowStruct", 10), Class("ActivityStruct", 10),
      Class("ActivityScheduleStruct", 10), Class("Subscale", 5)>>

\* ReportProcessor.__init_subclass__(cls), on the list of registered classes
init_subclass(registered, cls) ==
    IF cls.PRIORITY >= 0 THEN Append(registered, cls) ELSE registered

RECURSIVE RegisterAll(_, _)
RegisterAll(registered, classes) ==
    IF classes = <<>> THEN registered
    ELSE RegisterAll(init_subclass(registered, Head(classes)), Tail(classes))

RECURSIVE InsertByPriority(_, _)
\* cls put after every class of the sorted list whose PRIORITY is not larger
InsertByPriority(sorted, cls) ==
    IF sorted = <<>> THEN <<cls>>
    ELSE IF Head(sorted).PRIORITY <= cls.PRIORITY
    THEN <<Head(sorted)>> \o InsertByPriority(Tail(sorted), cls)
    ELSE <<cls>> \o sorted

RECURSIVE SortedByPriority(_)
\* sorted(classes, key=lambda x: x.PRIORITY): ascending and stable
SortedByPriority(classes) ==
    IF classes = <<>> THEN <<>>
    ELSE InsertByPriority(
             SortedByPriority(SubSeq(classes, 1, Len(classes) - 1)),
             classes[Len(classes)])

\* the priorities and ENABLE attributes a class defined by a user is given
UserPriorities == {-1, 0, 5, 9, 20}
UserEnables == {"unset", "True", "False"}
UserNames == [k \in 1..9 |-> "User" \o DigitChar(k)]

(* Specification of the registry and one run of the default chain. *)

InitChain ==
    /\ declared = BuiltIn
    /\ PROCESSORS = RegisterAll(<<>>, BuiltIn)
    /\ chain = NoChain
    /\ ParserIdle /\ OptionsIdle /\ ExpandIdle /\ ProcIdle /\ OutputIdle

\* class UserK(ReportProcessor): a subclass defined after the import
DefineSubclass ==
    /\ chain.pc = "idle"
    /\ Len(declared) < Len(BuiltIn) + MaxUser
    /\ \E priority \in UserPriorities, enable \in UserEnables :
          LET cls == [NAME |-> UserNames[Len(declared) - Len(BuiltIn) + 1],
                      PRIORITY |-> priority, ENABLE |-> enable]
          IN  /\ declared' = Append(declared, cls)
              /\ PROCESSORS' = init_subclass(PROCESSORS, cls)
    /\ UNCHANGED outputVars
    /\ UNCHANGED <<response, parsed, options, parsed_options, df,
                   long_response, long_options, scored, proc_in, proc_name,
                   proc_out, chain>>

\* load_web_export up to the loop: the report is read and the registered
\* classes are sorted
load_web_export ==
    /\ chain.pc = "idle"
    /\ chain' = [chain EXCEPT !.pc = "loop",
                              !.queue = SortedByPriority(PROCESSORS)]
    /\ UNCHANGED outputVars
    /\ UNCHANGED <<response, parsed, options, parsed_options, df,
                   long_response, long_options, scored, proc_in, proc_name,
                   proc_out, PROCESSORS, declared>>

\* one iteration of the loop of load_web_export, or its return.  The report
\* is held as the list of the processors it has been through.
load_web_export_iteration ==
    /\ chain.pc = "loop"
    /\ chain' =
          IF chain.queue = <<>> THEN [chain EXCEPT !.pc = "returned"]
          ELSE LET proc == Head(chain.queue)
               IN  IF proc.ENABLE = "unset"
                   THEN [chain EXCEPT !.pc = "raised",
                                      !.raised = "AttributeError"]
                   ELSE IF proc.ENABLE = "False"
                   THEN [chain EXCEPT !.queue = Tail(chain.queue)]
                   ELSE [chain EXCEPT !.queue = Tail(chain.queue),
                                      !.ran = Append(chain.ran, proc.NAME),
                                      !.report = Append(chain.report, proc.NAME)]
    /\ UNCHANGED outputVars
    /\ UNCHANGED <<response, parsed, options, parsed_options, df,
                   long_response, long_options, scored, proc_in, proc_name,
                   proc_out, PROCESSORS, declared>>

NextChain ==
    \/ DefineSubclass
    \/ load_web_export
    \/ load_web_export_iteration

SpecChain == InitChain /\ [][NextChain]_vars

\* C7: a run of load_web_export ends by returning, having executed exactly
\* the registered processors, each once, in ascending priority order with
\* equal priorities in registration order, the table passing through them
\* in that order; no class declared with a negative priority has executed.
C7_ChainRunsRegistered ==
    chain.pc \in {"returned", "raised"} =>
        /\ chain.pc = "returned"
        /\ chain.ran = [k \in 1..Len(PROCESSORS) |->
                           SortedByPriority(PROCESSORS)[k].NAME]
        /\ chain.report = chain.ran
        /\ \A k \in 1..Len(declared) :
              declared[k].PRIORITY < 0 =>
                 \A j \in 1..Len(chain.ran) : chain.ran[j] # declared[k].NAME

-----------------------------------------------------------------------------
(* The tables the Subscale processor is run on: exports after               *)
(* ColumnCasting, with all, some or none of the score columns, of up to     *)
(* MaxRows rows; a row may or may not hold a value in a score column.       *)

SubKinds ==
    {[target |-> <<"p", "2">>, activity |-> <<"a", "1">>, item |-> <<"i", "1">>,
      response |-> Some(<<"v", "a", "l", "u", "e", ":", " ", "1">>), status |-> Some(<<"o", "k">>),
      rawScore |-> Some(<<"3">>), score |-> Some(5), lookup |-> Some(<<"l", "o", "w">>), sub |-> Some(12)],
     [target |-> <<"p", "1">>, activity |-> <<"a", "2">>, item |-> <<"i", "2">>,
      response |-> None, status |-> None,
      rawScore |-> None, score |-> None, lookup |-> None, sub |-> Some(7)],
     [target |-> <<"p", "1">>, activity |-> <<"a", "1">>, item |-> <<"i", "1">>,
      response |-> Some(<<"v", "a", "l", "u", "e", ":", " ", "1">>), status |-> Some(<<"o", "k">>),
      rawScore |-> None, score |-> None, lookup |-> None, sub |-> None],
     [target |-> <<"p", "2">>, activity |-> <<"a", "1">>, item |-> <<"i", "1">>,
      response |-> Some(<<"v", "a", "l", "u", "e", ":", " ", "1">>), status |-> None,
      rawScore |-> Some(<<"5">>), score |-> Some(5), lookup |-> None, sub |-> None]}

SubRow(kind, cols) ==
    [c \in cols |->
        CASE c = "target_id" -> Some(kind.target)
          [] c = "activity_id" -> Some(kind.activity)
          [] c = "item_id" -> Some(kind.item)
          [] c = "item_response" -> kind.response
          [] c = "item_response_status" -> kind.status
          [] c = "rawScore" -> kind.rawScore
          [] c = "activity_score" -> kind.score
          [] c = "activity_score_lookup_text" -> kind.lookup
          [] c = "subscale_name_a" -> kind.sub
          [] c = "utc_timezone_offset" -> Some(60)
          [] OTHER -> Some(<<"x">>)]

SubSchemas ==
    {ExportColumns \cup ss :
        ss \in {{}, SubscaleNames, {"subscale_name_a"},
                {"activity_score", "activity_score_lookup_text"}}}
    \cup {(ExportColumns \ {c}) \cup SubscaleNames : c \in {"target_tag", "rawScore"}}

SubTables ==
    {Table([c \in cols |-> TScalar],
           [i \in 1..Len(kinds) |-> SubRow(kinds[i], cols)]) :
        cols \in SubSchemas, kinds \in RowLists(SubKinds, MaxRows)}

(* Specification of the Subscale processor run on one table. *)

InitSub ==
    /\ proc_in \in SubTables
    /\ proc_name = "Subscale"
    /\ proc_out = NotRun
    /\ ParserIdle /\ OptionsIdle /\ ExpandIdle /\ ChainIdle /\ OutputIdle

NextSub == ReportProcessor_process

SpecSub == InitSub /\ [][NextSub]_vars

-----------------------------------------------------------------------------
(* Specification of one call of ResponseParser.parse. *)

InitParse ==
    /\ response \in ResponseTexts
    /\ parsed = NotParsed
    /\ OptionsIdle /\ ExpandIdle /\ ProcIdle /\ ChainIdle /\ OutputIdle

NextParse == ResponseParser_parse

SpecParse == InitParse /\ [][NextParse]_vars

(* Specification of one call of OptionsParser.parse. *)

InitOptions ==
    /\ options \in OptionTexts
    /\ parsed_options = NoOptions
    /\ ParserIdle /\ ExpandIdle /\ ProcIdle /\ ChainIdle /\ OutputIdle

NextOptions == OptionsParser_parse

SpecOptions == InitOptions /\ [][NextOptions]_vars

-----------------------------------------------------------------------------
(* Properties of the response parser. *)

Accepted == parsed.status = "done" /\ parsed.raised = ""

\* C1: every record parse returns carries a type tag naming one of the ten
\* variants, the field of that name is non-null and the nine other variant
\* fields are null.
C1_ExactlyOneVariant ==
    Accepted =>
        \E t \in VariantFields :
            /\ parsed.rec.type = Some(t)
            /\ ~IsNull(parsed.rec[t])
            /\ \A u \in VariantFields \ {t} : IsNull(parsed.rec[u])

\* C1 witness: a matrix text has been parsed into a record tagged matrix.
C1_Witness ==
    /\ Accepted
    /\ parsed.rec.type = Some("matrix")
    /\ ~IsNull(parsed.rec.matrix)

\* C2: parse returns a record for every non-empty text, whatever digits
\* stand in the numeric fields of a structured rule.
C2_ParseTotal ==
    (parsed.status = "done" /\ response # <<>>) => parsed.raised = ""

-----------------------------------------------------------------------------
(* Properties of the options parser. *)

\* the records the range min..max stands for
RangeRecords(lo, hi) ==
    [k \in 1..(hi - lo + 1) |->
        [name |-> PyInt(lo + k - 1), value |-> lo + k - 1,
         score |-> Some(lo + k - 1)]]

\* C10: 'Max: hi, Min: lo' and 'Min: lo, Max: hi' with lo <= hi both parse
\* to the hi-lo+1 records of n = lo..hi in ascending order with name, value
\* and score all n, and never to two options named Max and Min.
C10_RangeExpansion ==
    \A lo \in RangeNums, hi \in RangeNums :
        (/\ parsed_options.status = "done"
         /\ options \in {MaxMinText(hi, lo), MinMaxText(lo, hi)}
         /\ ToInt(lo) <= ToInt(hi))
        => /\ parsed_options.raised = ""
           /\ Len(parsed_options.v) = ToInt(hi) - ToInt(lo) + 1
           /\ parsed_options.v = RangeRecords(ToInt(lo), ToInt(hi))
           /\ \A k \in 1..Len(parsed_options.v) :
                 parsed_options.v[k].name \notin {PyStr(L_Max), PyStr(L_Min)}

\* C10 witness: 'Max: 3, Min: 1' has been parsed into three records.
C10_Witness ==
    /\ options = MaxMinText(<<"3">>, <<"1">>)
    /\ parsed_options.status = "done"
    /\ Len(parsed_options.v) = 3

\* the entries a list text is written from: <<name, value>> and
\* <<name, value, score>>, each a digit or word string
PlainLists ==
    UNION {[1..n -> OptionNames \X OptionValues] : n \in 1..MaxOptions}
ScoredLists ==
    UNION {[1..n -> {<<"1">>, <<"Y", "e", "s">>} \X OptionValues \X ScoreStrs] :
           n \in 1..MaxOptions}

PlainTextOf(l) ==
    Join([k \in 1..Len(l) |-> PlainEntry(l[k][1], l[k][2])], <<",", " ">>)
ScoredTextOf(l) ==
    Join([k \in 1..Len(l) |-> ScoredEntry(l[k][1], l[k][2], l[k][3])],
         <<",", " ">>)

\* the two-entry lists that are the range shorthand of C10
IsRangeForm(l) ==
    /\ Len(l) = 2
    /\ <<l[1][1], l[2][1]>> \in {<<<<"M", "a", "x">>, <<"M", "i", "n">>>>,
                                 <<<<"M", "i", "n">>, <<"M", "a", "x">>>>}

\* the number a score text with an optional sign stands for
ScoreVal(sc) == IF sc[1] = "-" THEN 0 - ToInt(Tail(sc)) ELSE ToInt(sc)

\* C11: a plain list 'name: value, ...' that is not the range shorthand
\* parses to one record for each entry, in the order written, with the
\* entry's name and value and a null score; a scored list
\* 'name: value (score: s), ...' parses to one record for each entry, in the
\* order written, with score s.
C11_PlainAndScoredLists ==
    parsed_options.status = "done" =>
        /\ \A l \in PlainLists :
              (options = PlainTextOf(l) /\ ~IsRangeForm(l)) =>
                 /\ parsed_options.raised = ""
                 /\ parsed_options.v =
                       [k \in 1..Len(l) |->
                           [name |-> PyStr(l[k][1]), value |-> ToInt(l[k][2]),
                            score |-> None]]
        /\ \A l \in ScoredLists :
              options = ScoredTextOf(l) =>
                 /\ parsed_options.raised = ""
                 /\ parsed_options.v =
                       [k \in 1..Len(l) |->
                           [name |-> PyStr(l[k][1]), value |-> ToInt(l[k][2]),
                            score |-> Some(ScoreVal(l[k][3]))]]

\* C11 witness: a scored list of two entries has been parsed into two
\* records.
C11_Witness ==
    /\ options = ScoredTextOf(<<<<<<"1">>, <<"0">>, <<"1">>>>,
                                <<<<"Y", "e", "s">>, <<"2">>, <<"-", "1">>>>>>)
    /\ parsed_options.status = "done"
    /\ parsed_options.raised = ""
    /\ Len(parsed_options.v) = 2

-----------------------------------------------------------------------------
(* Properties of single rules of the response grammar. *)

\* the digit strings of an integer list of 1..MaxList elements
IntLists == UNION {[1..n -> NumStrs] : n \in 1..MaxList}

\* 'value: i1, i2, ..., ik' written with sep between the elements
ValueTextOf(l, sep) == L_value \o <<" ">> \o Join(l, sep)

\* C12: 'value: i' parses to a value record whose list is [i], and
\* 'value: i1, i2, ..., ik' to a value record whose list is [i1, ..., ik] in
\* the order and length of the text; 'value: null' parses to null_value and
\* its value field stays null.
C12_ValueListDecoded ==
    parsed.status = "done" =>
        /\ \A l \in IntLists :
              response = ValueTextOf(l, <<",", " ">>) =>
                 /\ parsed.raised = ""
                 /\ parsed.rec.type = Some("value")
                 /\ parsed.rec.value = Some([k \in 1..Len(l) |-> ToInt(l[k])])
        /\ response = L_value_null =>
              /\ parsed.raised = ""
              /\ parsed.rec.type = Some("null_value")
              /\ parsed.rec.null_value = Some(TRUE)
              /\ IsNull(parsed.rec.value)

\* C12 witness: 'value: 1, 2, 12' has been parsed into a list of three.
C12_Witness ==
    /\ response = ValueTextOf(<<<<"1">>, <<"2">>, <<"1", "2">>>>, <<",", " ">>)
    /\ Accepted
    /\ parsed.rec.value = Some(<<1, 2, 12>>)

\* C13: an integer list written with ',', ', ' or ' , ' between its elements
\* parses to the same value record, the one whose list holds the elements in
\* order, whatever the inline whitespace around the commas.
C13_ListWhitespaceInsignificant ==
    parsed.status = "done" =>
        \A l \in IntLists, sep \in Separators :
            response = ValueTextOf(l, sep) =>
               /\ parsed.raised = ""
               /\ parsed.rec.type = Some("value")
               /\ parsed.rec.value = Some([k \in 1..Len(l) |-> ToInt(l[k])])

\* 'date: A/B/Y'
DateTextOf(a, b, y) == L_date \o <<" ">> \o a \o L_slash \o b \o L_slash \o y

C15_TwoDigitYearPivot ==
    parsed.status = "done" =>
        /\ \A a \in DayStrs, b \in MonthStrs, y \in YearStrs :
              (/\ response = DateTextOf(a, b, y)
               /\ Len(y) = 2
               /\ parsed.raised = "") =>
                 /\ ~IsNull(parsed.rec.date)
                 /\ Get(parsed.rec.date).year =
                       IF ToInt(y) < 69 THEN 2000 + ToInt(y) ELSE 1900 + ToInt(y)
        /\ \A t \in {<<<<"6", "8">>, 2068>>, <<<<"6", "9">>, 1969>>,
                     <<<<"9", "9">>, 1999>>} :
              response = DateTextOf(<<"1">>, <<"2">>, t[1]) =>
                 /\ parsed.raised = ""
                 /\ parsed.rec.date = Some([year |-> t[2], month |-> 2, day |-> 1])

\* C15 witness: 'date: 1/2/69' has been parsed into a date of 1969.
C15_Witness ==
    /\ response = DateTextOf(<<"1">>, <<"2">>, <<"6", "9">>)
    /\ Accepted
    /\ Get(parsed.rec.date).year = 1969

\* C16: a year written with four digits parses to its numeric value, with no
\* pivot offset added.
C16_FourDigitYearUnchanged ==
    parsed.status = "done" =>
        \A a \in DayStrs, b \in MonthStrs, y \in YearStrs :
            (/\ response = DateTextOf(a, b, y)
             /\ Len(y) = 4
             /\ parsed.raised = "") =>
               /\ ~IsNull(parsed.rec.date)
               /\ Get(parsed.rec.date).year = ToInt(y)

\* C17: 'time_range: from hr H1 min M1 / to hr H2 min M2' parses to the
\* duration of (H2*60 + M2) - (H1*60 + M1) minutes, negative when the to
\* time precedes the from time; from 9:30 to 12:05 it is 155 minutes.
C17_TimeRangeDuration ==
    parsed.status = "done" =>
        /\ \A h1 \in FromHourStrs, m1 \in FromMinuteStrs,
              h2 \in ToHourStrs, m2 \in ToMinuteStrs :
              (response = TimeRangeTextOf(h1, m1, h2, m2) /\ parsed.raised = "") =>
                 /\ parsed.rec.type = Some("time_range")
                 /\ parsed.rec.time_range =
                       Some((ToInt(h2) * 60 + ToInt(m2))
                            - (ToInt(h1) * 60 + ToInt(m1)))
        /\ response = TimeRangeTextOf(<<"9">>, <<"3", "0">>, <<"1", "2">>, <<"5">>) =>
              /\ parsed.raised = ""
              /\ parsed.rec.time_range = Some(155)

\* C17 witness: a range from 23:30 to 0:05 has been parsed into a negative
\* duration.
C17_Witness ==
    /\ response = TimeRangeTextOf(<<"2", "3">>, <<"3", "0">>, <<"0">>, <<"5">>)
    /\ Accepted
    /\ parsed.rec.time_range = Some(-1405)

-----------------------------------------------------------------------------
(* Properties of the DateTime processor. *)

\* a cell that holds the digits of a number of epoch milliseconds
IsNumericText(cell) ==
    /\ ~IsNull(cell)
    /\ Get(cell) # <<>>
    /\ \A k \in 1..Len(Get(cell)) : Get(cell)[k] \in Digits

TimeColumns(t) == {c \in Columns(t) : EndsWithTime(c)}

C19_DerivedDtColumn ==
    (Returned_process /\ proc_name = "DateTime") =>
        \A c \in TimeColumns(proc_in) :
            /\ (c \o "_dt") \in Columns(proc_out.out)
            /\ c \in Columns(proc_out.out)
            /\ \A i \in 1..Height(proc_in) :
                  proc_out.out.rows[i][c] = proc_in.rows[i][c]

-----------------------------------------------------------------------------
(* Properties of the Subscale processor. *)

\* the score columns of the table the processor was given
ScoreColumns == Columns(proc_in) \cap SubscaleNames

\* row j of the output, without item_name
OutputRow(j) ==
    [c \in Columns(proc_out.out) \ {"item_name"} |-> proc_out.out.rows[j][c]]

\* row i of the input as the output should hold it
OriginalRow(i) ==
    [c \in Columns(proc_out.out) \ {"item_name"} |->
        IF c \in Columns(proc_in) THEN proc_in.rows[i][c] ELSE None]

\* the row the output should hold for the value of score column s in row i
SubscaleRow(i, s) ==
    [c \in Columns(proc_out.out) \ {"item_name"} |->
        IF c = "item_type" THEN Some(L_subscale)
        ELSE IF c = "item_id" THEN Some(ColumnText(s))
        ELSE IF c = "item_response"
        THEN Some(IF s \in NumericSubscale THEN IntText(Get(proc_in.rows[i][s]))
                  ELSE Get(proc_in.rows[i][s]))
        ELSE IF c \in {"item_prompt", "item_response_options",
                       "item_response_status", "rawScore"} THEN None
        ELSE proc_in.rows[i][c]]

ValuedPairs ==
    {p \in (1..Height(proc_in)) \X ScoreColumns : ~IsNull(proc_in.rows[p[1]][p[2]])}

\* C20: a table Subscale returns for a table with score columns has none of
\* the score columns and holds, as a multiset, the rows of the input and one
\* more row for each pair of an input row and a score column whose value is
\* not null: that row has the input row's identity columns, item_type
\* subscale, the column's name as item_id, the value as text as
\* item_response and null item_prompt, item_response_options,
\* item_response_status and rawScore.
C20_SubscaleRows ==
    (Returned_process /\ proc_name = "Subscale" /\ ScoreColumns # {}) =>
        /\ Columns(proc_out.out) \cap ScoreColumns = {}
        /\ Columns(proc_in) \ ScoreColumns \subseteq Columns(proc_out.out)
        /\ Height(proc_out.out) = Height(proc_in) + Cardinality(ValuedPairs)
        /\ \A x \in {OutputRow(j) : j \in 1..Height(proc_out.out)}
                    \cup {OriginalRow(i) : i \in 1..Height(proc_in)}
                    \cup {SubscaleRow(p[1], p[2]) : p \in ValuedPairs} :
              Cardinality({j \in 1..Height(proc_out.out) : OutputRow(j) = x})
                 = Cardinality({i \in 1..Height(proc_in) : OriginalRow(i) = x})
                   + Cardinality({p \in ValuedPairs : SubscaleRow(p[1], p[2]) = x})
        /\ \A n \in {proc_in.rows[i]["item_name"] : i \in 1..Height(proc_in)} :
              Cardinality({j \in 1..Height(proc_out.out) :
                              /\ proc_out.out.rows[j]["item_type"] # Some(L_subscale)
                              /\ proc_out.out.rows[j]["item_name"] = n})
                 = Cardinality({i \in 1..Height(proc_in) :
                                   proc_in.rows[i]["item_name"] = n})

\* C20 witness: Subscale has returned five or more rows for a table of two
\* rows with the three score columns.
C20_Witness ==
    /\ Returned_process
    /\ proc_name = "Subscale"
    /\ ScoreColumns = SubscaleNames
    /\ Height(proc_in) = 2
    /\ Height(proc_out.out) >= 5
    /\ \E j \in 1..Height(proc_out.out) :
          proc_out.out.rows[j]["item_type"] = Some(L_subscale)

-----------------------------------------------------------------------------
(* Properties of the resolution between the rules of the response grammar. *)

\* the variant the callback of each alternative of start tags its record with
RuleVariant(a) ==
    CASE a = 1 -> "text" [] a = 2 -> "null_value" [] a = 3 -> "value"
      [] a = 4 -> "value" [] a = 5 -> "date" [] a = 6 -> "time"
      [] a = 7 -> "time_range" [] a = 8 -> "geo" [] a = 9 -> "matrix"
      [] a = 10 -> "file" [] a = 11 -> "raw_value"

\* the first of the rules that derive the text, in the order text, 'value:
\* null', single value, multi value, date, time, time_range, geo, matrix,
\* file, raw value
FirstListed(s) == CHOOSE a \in Matching(s) : \A b \in Matching(s) : a <= b

\* 'text: <body>'
TextOf(body) == L_text \o <<" ">> \o body
IsTextCell(s) == Len(s) > Len(L_text) + 1 /\ StartsWith(s, TextOf(<<>>))
BodyOf(s) == SubSeq(s, Len(L_text) + 2, Len(s))

-----------------------------------------------------------------------------
(* Properties of the expansion of a matrix response. *)

\* the rows of a matrix record, and the values of its r-th row
MatrixRows(rec) == Get(rec.matrix)
RowValues(rec, r) == Get(Get(MatrixRows(rec)[r]).value)

\* the number of values in the matrix rows before row r
ValuesBefore(rec, r) ==
    SumOver([q \in 1..Len(MatrixRows(rec)) |-> Len(RowValues(rec, q))], r - 1)

\* C27: an input row whose response is a Matrix of rows r1..rR, row ri
\* holding Vi >= 1 values, stands in the output as exactly V1+...+VR
\* consecutive rows, grouped by matrix row in line order and in value order
\* within a matrix row; each carries the row key, one value and the 0-based
\* index of the value within its matrix row, and agrees with the input row
\* on every input column and with the others on every other column.
C27_MatrixRows ==
    Expanded =>
        \A i \in 1..Height(df) :
            LET rec == RecordOf(df.rows[i])
                out == long_response.out
                at == RowsBefore(i)
            IN  (/\ rec.type = Some("matrix")
                 /\ \A r \in 1..Len(MatrixRows(rec)) : Len(RowValues(rec, r)) >= 1)
                => /\ RowsBefore(i + 1)
                        = at + ValuesBefore(rec, Len(MatrixRows(rec)) + 1)
                   /\ \A r \in 1..Len(MatrixRows(rec)) :
                        \A k \in 1..Len(RowValues(rec, r)) :
                          LET row == out.rows[at + ValuesBefore(rec, r) + k]
                          IN  /\ row["response_value_matrix_row"]
                                    = Get(MatrixRows(rec)[r]).row
                              /\ row["response_value_matrix_value"]
                                    = RowValues(rec, r)[k]
                              /\ row["response_value_matrix_value_index"]
                                    = Some(k - 1)
                              /\ \A c \in Columns(df) : row[c] = df.rows[i][c]
                              /\ \A c \in Columns(out)
                                       \ {"response_value_matrix_row",
                                          "response_value_matrix_value",
                                          "response_value_matrix_value_index"} :
                                    row[c] = out.rows[at + 1][c]

\* C27 witness: a matrix of three rows holding one, two and one values has
\* been expanded into four rows, the third of which is the second value of
\* the second matrix row.
C27_Witness ==
    /\ Expanded
    /\ \E i \in 1..Height(df) :
          LET rec == RecordOf(df.rows[i])
          IN  /\ rec.type = Some("matrix")
              /\ Len(MatrixRows(rec)) = 3
              /\ RowsBefore(i + 1) = RowsBefore(i) + 4
              /\ long_response.out.rows[RowsBefore(i) + 3]
                    ["response_value_matrix_row"] = Some(<<"r", "o", "w", "1">>)
              /\ long_response.out.rows[RowsBefore(i) + 3]
                    ["response_value_matrix_value_index"] = Some(1)


-----------------------------------------------------------------------------
(* Properties of Subscale on a table without score columns. *)

\* C28: for a table with no score column (no column named subscale_*,
\* activity_score or activity_score_lookup_text) Subscale raises no error
\* and returns the table it was given: the same columns and the same rows
\* with the same values, in the same number and order.
C28_NoScoreColumnsUnchanged ==
    (proc_out.status = "done" /\ proc_name = "Subscale" /\ ScoreColumns = {}) =>
        /\ proc_out.out.raised = ""
        /\ Columns(proc_out.out) = Columns(proc_in)
        /\ Height(proc_out.out) = Height(proc_in)
        /\ proc_out.out.rows = proc_in.rows


-----------------------------------------------------------------------------
(* Properties of the response struct. *)

\* ResponseStructProcessor.RESPONSE_SCHEMA: the declared field names
RESPONSE_SCHEMA == {"status", "value", "raw_score"}

\* C30: the response column ResponseStructProcessor returns is a record of
\* exactly the fields of RESPONSE_SCHEMA (status, value, raw_score), the
\* parsed record standing under value, and expand_responses applied to that
\* table finds every field it unnests and returns a table.
C30_ResponseStructShape ==
    (Returned_process /\ proc_name = "ResponseStruct") =>
        /\ proc_out.out.schema["response"].k = "struct"
        /\ DOMAIN proc_out.out.schema["response"].f = RESPONSE_SCHEMA
        /\ proc_out.out.schema["response"].f["value"] = ResponseType
        /\ expand_responses(proc_out.out).raised = ""


-----------------------------------------------------------------------------
(* Properties of the order of the default chain. *)

\* the place of the processor named name in a list of names, 0 when absent
PlaceOf(names, name) ==
    IF \E k \in 1..Len(names) : names[k] = name
    THEN CHOOSE k \in 1..Len(names) : names[k] = name
    ELSE 0

StructProcessors ==
    {"ResponseStruct", "UserStruct", "ItemStruct", "ActivityFlowStruct",
     "ActivityStruct", "ActivityScheduleStruct"}

\* names holds DropLegacyUserId and ColumnCasting before Subscale, Subscale
\* before DateTime and DateTime before every struct processor
InChainOrder(names) ==
    /\ \A n \in {"DropLegacyUserId", "ColumnCasting", "Subscale", "DateTime"}
                \cup StructProcessors : PlaceOf(names, n) > 0
    /\ PlaceOf(names, "DropLegacyUserId") < PlaceOf(names, "Subscale")
    /\ PlaceOf(names, "ColumnCasting") < PlaceOf(names, "Subscale")
    /\ PlaceOf(names, "Subscale") < PlaceOf(names, "DateTime")
    /\ \A s \in StructProcessors :
          PlaceOf(names, "DateTime") < PlaceOf(names, s)

\* C29: a run of the default chain executes DropLegacyUserId and
\* ColumnCasting before Subscale, Subscale before DateTime and DateTime
\* before each of the six struct processors, so that Subscale and DateTime
\* are given a table no struct processor has been through and the activity
\* struct processors one DateTime has been through.
C29_ChainOrder ==
    chain.pc \in {"returned", "raised"} =>
        /\ InChainOrder(chain.ran)
        /\ InChainOrder(chain.report)


-----------------------------------------------------------------------------
(* main (main.py), MindloggerData.create and load (mindlogger.py).  The    *)
(* input path names nothing, a directory holding files, or a file.         *)

MaxTypes == 2       \* most output types requested in one run

L_responses == <<"r", "e", "s", "p", "o", "n", "s", "e", "s">>
L_dot_csv == <<".", "c", "s", "v">>

\* MINDLOGGER_REPORT_PATTERN, "*responses*.csv", matched against a file name
MatchesReportPattern(name) ==
    \E i \in 1..Len(name) :
        /\ LitAt(name, i, L_responses)
        /\ i + Len(L_responses) <= Len(name) - Len(L_dot_csv) + 1
        /\ LitAt(name, Len(name) - Len(L_dot_csv) + 1, L_dot_csv)

\* input_path.glob(MINDLOGGER_REPORT_PATTERN)
Glob(input_dir) == {f \in input_dir.files : MatchesReportPattern(f)}

RECURSIVE RunChain(_, _)
\* the loop of load_web_export over the sorted classes, ran being the
\* processors executed so far
RunChain(queue, ran) ==
    IF queue = <<>> THEN [raised |-> "", ran |-> ran]
    ELSE IF Head(queue).ENABLE = "unset"
    THEN [raised |-> "AttributeError", ran |-> ran]
    ELSE IF Head(queue).ENABLE = "False" THEN RunChain(Tail(queue), ran)
    ELSE RunChain(Tail(queue), Append(ran, Head(queue).NAME))

\* MindloggerData.load_web_export(input_path): pl.concat of no frame raises
\* ValueError; an exception of read_csv passes through (ComputeError is
\* logged and raised again); then the registered processors are run
load_web_export_of(input_dir) ==
    IF Glob(input_dir) = {} THEN [raised |-> "ValueError", ran |-> <<>>]
    ELSE IF input_dir.read_error # ""
    THEN [raised |-> input_dir.read_error, ran |-> <<>>]
    ELSE RunChain(SortedByPriority(RegisterAll(<<>>, BuiltIn)), <<>>)

\* MindloggerData.load_api_export(input_path): pl.read_json of the file
load_api_export(input_path) ==
    [raised |-> input_path.read_error, ran |-> <<>>]

\* MindloggerData.load(input_path)
load(input_path) ==
    IF input_path.kind = "missing"
    THEN [raised |-> "FileNotFoundError", ran |-> <<>>]
    ELSE IF input_path.kind = "dir" THEN load_web_export_of(input_path)
    ELSE load_api_export(input_path)

\* Output.TYPES, by NAME, each with the names of the outputs its _format
\* returns; the attendance format adds one output for every site and date
OutputTypes ==
    {"wide-activity", "wide", "long", "dictionary", "options", "scored",
     "ymha-attendance"}

OutputNames(type) ==
    CASE type = "wide-activity" -> <<"wide_data">>
      [] type = "wide" -> <<"wide_data">>
      [] type = "long" -> <<"long_data">>
      [] type = "dictionary" -> <<"data_dictionary">>
      [] type = "options" -> <<"options">>
      [] type = "scored" -> <<"scored_responses">>
      [] type = "ymha-attendance" ->
            <<"ymha_attendance-all", "ymha_completion-all">>

\* Output.__init__(self, extra) called with the arguments given: the
\* exception Python raises for the call, if any
Output_init(given) == IF "extra" \in given THEN "" ELSE "TypeError"

\* the input paths of the model
FileNames ==
    {<<"r", "e", "s", "p", "o", "n", "s", "e", "s", ".", "c", "s", "v">>,
     <<"a", "_", "r", "e", "s", "p", "o", "n", "s", "e", "s", "_", "1", ".", "c", "s", "v">>,
     <<"r", "e", "p", "o", "r", "t", ".", "c", "s", "v">>,
     <<"r", "e", "s", "p", "o", "n", "s", "e", "s", ".", "t", "x", "t">>}

InputPaths ==
    {[kind |-> "missing"]}
    \cup {[kind |-> "dir", files |-> fs, read_error |-> e] :
             fs \in SUBSET FileNames, e \in {"", "ComputeError", "NoDataError"}}
    \cup {[kind |-> "file", read_error |-> e] : e \in {"", "ComputeError"}}

(* Specification of one run of main. *)

InitMain ==
    /\ run_config \in [cmd : {"info", "run"}, input_dir : InputPaths,
                       output_types : UNION {[1..n -> OutputTypes] : n \in 1..MaxTypes},
                       output_format : {"csv", "parquet"}]
    /\ run = [NoRun EXCEPT !.pc = "start"]
    /\ WriterIdle /\ LegacyIdle
    /\ ParserIdle /\ OptionsIdle /\ ExpandIdle /\ ProcIdle /\ ChainIdle

\* main, config.cmd being OutputTypesInfo: the types are printed
output_types_info ==
    /\ run.pc = "start" /\ run_config.cmd = "info"
    /\ run' = [run EXCEPT !.pc = "returned"]
    /\ UNCHANGED <<run_config, output, written, legacy>>
    /\ UNCHANGED reportVars

\* ml_data = MindloggerData.create(run_config.input_dir)
MindloggerData_create ==
    /\ run.pc = "start" /\ run_config.cmd = "run"
    /\ LET loaded == load(run_config.input_dir)
       IN  run' = IF loaded.raised # ""
                  THEN [run EXCEPT !.pc = "raised", !.raised = loaded.raised,
                                   !.ran = loaded.ran]
                  ELSE [run EXCEPT !.pc = "writer", !.ml_data = "loaded",
                                   !.ran = loaded.ran]
    /\ UNCHANGED <<run_config, output, written, legacy>>
    /\ UNCHANGED reportVars

\* writer = OutputWriter.create(run_config.output_format)
OutputWriter_create ==
    /\ run.pc = "writer"
    /\ run' = [run EXCEPT !.pc = "loop"]
    /\ UNCHANGED <<run_config, output, written, legacy>>
    /\ UNCHANGED reportVars

\* one iteration of the loop of main over the requested output types, or
\* its return: the producer is made, produces its outputs and each is
\* written
main_iteration ==
    /\ run.pc = "loop"
    /\ LET i == Len(run.attempted) + 1
       IN  run' =
             IF i > Len(run_config.output_types)
             THEN [run EXCEPT !.pc = "returned"]
             ELSE IF Output_init({}) # ""
             THEN [run EXCEPT !.pc = "raised", !.raised = Output_init({}),
                              !.attempted = Append(run.attempted,
                                                   run_config.output_types[i])]
             ELSE [run EXCEPT !.attempted = Append(run.attempted,
                                                   run_config.output_types[i]),
                              !.outputs = run.outputs
                                  \o OutputNames(run_config.output_types[i])]
    /\ UNCHANGED <<run_config, output, written, legacy>>
    /\ UNCHANGED reportVars

NextMain ==
    \/ output_types_info
    \/ MindloggerData_create
    \/ OutputWriter_create
    \/ main_iteration

SpecMain == InitMain /\ [][NextMain]_vars

Ended == run.pc \in {"returned", "raised"}


\* MindloggerData.create has been called and has returned or raised
Created == run_config.cmd = "run" /\ run.pc # "start"

\* C21: when main has ended on input that loaded, every requested output
\* type has been attempted, whatever another one of them raised.
C21_EveryTypeAttempted ==
    (Ended /\ run.ml_data = "loaded")
        => run.attempted = run_config.output_types

\* C22: create on a path that does not exist, or on a directory holding no
\* file that matches the report pattern, raises FileNotFoundError, no
\* processor has run and no output is written.
C22_InputAbsentError ==
    (/\ Created
     /\ \/ run_config.input_dir.kind = "missing"
        \/ /\ run_config.input_dir.kind = "dir"
           /\ Glob(run_config.input_dir) = {})
        => /\ run.raised = "FileNotFoundError"
           /\ run.ran = <<>>
           /\ run.outputs = <<>>

\* C23: create on a regular file raises NotADirectoryError and returns no
\* data.
C23_NotADirectoryError ==
    (Created /\ run_config.input_dir.kind = "file")
        => /\ run.raised = "NotADirectoryError"
           /\ run.ml_data = ""


-----------------------------------------------------------------------------
(* The writers (writers.py).  A duration cell is a record of minutes, as   *)
(* DurationMinutes makes it.                                               *)

MaxHeight == 2      \* most rows in a table handed to a writer

TDuration == [k |-> "duration"]

\* Expr.dt.total_milliseconds() on one cell
total_milliseconds(cell) ==
    IF IsNull(cell) THEN None ELSE Some(Get(cell).minutes * 60 * 1000)

\* cs.duration() over the columns of t
DurationCols(t) == {c \in Columns(t) : t.schema[c].k = "duration"}

\* with_columns(cs.duration().dt.total_milliseconds().name.suffix("_ms")):
\* every expression reads t, a column of the new name is overwritten
WithMilliseconds(t) ==
    LET new == {c \o "_ms" : c \in DurationCols(t)}
        cols == Columns(t) \cup new
        Of(n) == CHOOSE c \in DurationCols(t) : c \o "_ms" = n
    IN  Table([c \in cols |-> IF c \in new THEN TScalar ELSE t.schema[c]],
              [i \in 1..Height(t) |->
                  [c \in cols |->
                      IF c \in new THEN total_milliseconds(t.rows[i][Of(c)])
                      ELSE t.rows[i][c]]])

\* the columns whose dtype.base_type() is pl.List or pl.Struct
NestedCols(t) == {c \in Columns(t) : t.schema[c].k \in {"list", "struct"}}

\* the columns s of df with s.null_count() == df.height
NullCols(t) ==
    {c \in Columns(t) : \A i \in 1..Height(t) : IsNull(t.rows[i][c])}

\* if drop_null_columns: df.select(the columns that are not all null)
DropNullColumns(t, drop_null_columns) ==
    IF drop_null_columns THEN Select(t, Columns(t) \ NullCols(t)) ELSE t

\* the frame CsvWriter.write hands to write_csv, dropping structs only
CsvFrame_keeps_lists(t, drop_null_columns) ==
    LET ms == Without(WithMilliseconds(t), DurationCols(t))
        flat == Without(ms, {c \in Columns(ms) : ms.schema[c].k = "struct"})
    IN  DropNullColumns(flat, drop_null_columns)

\* the frame CsvWriter.write hands to write_csv
CsvFrame(t, drop_null_columns) ==
    LET ms == Without(WithMilliseconds(t), DurationCols(t))
        flat == Without(ms, NestedCols(ms))
    IN  DropNullColumns(flat, drop_null_columns)

\* the frame ParquetWriter.write hands to write_parquet
ParquetFrame(t, drop_null_columns) == DropNullColumns(t, drop_null_columns)

\* (output_dir / output.name).with_suffix(suffix), the name having no dot
WithSuffix(name, suffix) == name \o suffix

\* the columns of the tables handed to the writers, and their cells
WriterSchema ==
    [id |-> TScalar,
     utc_timezone_offset |-> TDuration,
     utc_timezone_offset_ms |-> TScalar,
     response |-> TStruct([value |-> TScalar]),
     items |-> TList(TScalar)]

WriterCells(c) ==
    CASE c = "id" -> {None, Some(1)}
      [] c = "utc_timezone_offset" -> {None, Some([minutes |-> -90])}
      [] c = "utc_timezone_offset_ms" -> {Some(7)}
      [] c = "response" -> {Some([value |-> Some(1)])}
      [] c = "items" -> {Some(<<Some(1)>>)}

RECURSIVE WriterRows(_)
\* the rows over the columns cols
WriterRows(cols) ==
    IF cols = {} THEN {[c \in {} |-> None]}
    ELSE LET c == CHOOSE x \in cols : TRUE
         IN  {[d \in cols |-> IF d = c THEN v ELSE r[d]] :
                 r \in WriterRows(cols \ {c}), v \in WriterCells(c)}

WriterTables ==
    UNION {
        {Table([c \in cols |-> WriterSchema[c]], rows) :
            rows \in UNION {[1..h -> WriterRows(cols)] : h \in 0..MaxHeight}} :
        cols \in SUBSET DOMAIN WriterSchema}

(* Specification of one call of write. *)

InitWrite ==
    /\ output \in [name : {"long_data", "options"}, output : WriterTables,
                   drop_null_columns : BOOLEAN]
    /\ written = NotRun
    /\ MainIdle /\ LegacyIdle
    /\ ParserIdle /\ OptionsIdle /\ ExpandIdle /\ ProcIdle /\ ChainIdle

\* CsvWriter.write(output, output_dir, drop_null_columns=...)
CsvWriter_write ==
    /\ written = NotRun
    /\ written' = [status |-> "done", writer |-> "csv",
                   out |-> CsvFrame(output.output, output.drop_null_columns),
                   path |-> WithSuffix(output.name, ".csv")]
    /\ UNCHANGED <<run_config, run, output, legacy>>
    /\ UNCHANGED reportVars

\* ParquetWriter.write(output, output_dir, drop_null_columns=...)
ParquetWriter_write ==
    /\ written = NotRun
    /\ written' = [status |-> "done", writer |-> "parquet",
                   out |-> ParquetFrame(output.output, output.drop_null_columns),
                   path |-> WithSuffix(output.name, ".parquet")]
    /\ UNCHANGED <<run_config, run, output, legacy>>
    /\ UNCHANGED reportVars

NextWrite ==
    \/ CsvWriter_write
    \/ ParquetWriter_write

SpecWrite == InitWrite /\ [][NextWrite]_vars


\* the CSV writer has written the output
CsvWritten == written.status = "done" /\ written.writer = "csv"

\* the cells of column c, top to bottom
ColumnCells(t, c) == [i \in 1..Height(t) |-> t.rows[i][c]]

\* the total milliseconds of the duration column c, top to bottom
MillisecondsOf(t, c) ==
    [i \in 1..Height(t) |-> total_milliseconds(t.rows[i][c])]

\* the columns of t that are neither struct, list nor duration
PlainCols(t) == Columns(t) \ (NestedCols(t) \cup DurationCols(t))

-----------------------------------------------------------------------------
(* The output formats of formats.py over the processors of                 *)
(* report_processors.py: the order in which one produce enters the _run    *)
(* of the processors.  A processor is named by its NAME.                   *)

MaxChain == 2       \* longest PROCESSORS list of a format defined by a user

\* ReportProcessor.PROCESSORS of report_processors.py: for every NAME the
\* class, its DEPENDENCIES and the processors its _run itself processes
LegacyProcessors ==
    [Identity |-> [class |-> "IdentityProcessor",
                   DEPENDENCIES |-> <<>>, calls |-> <<>>],
     DateTime |-> [class |-> "DateTimeProcessor",
                   DEPENDENCIES |-> <<>>, calls |-> <<>>],
     OptionsStruct |-> [class |-> "OptionsStructProcessor",
                        DEPENDENCIES |-> <<>>, calls |-> <<>>],
     UnnestedOptions |-> [class |-> "OptionsUnnestingProcessor",
                          DEPENDENCIES |-> <<"OptionsStruct">>, calls |-> <<>>],
     DataDictionary |-> [class |-> "DataDictionaryProcessor",
                         DEPENDENCIES |-> <<>>, calls |-> <<>>],
     ResponseStruct |-> [class |-> "StructResponseProcessor",
                         DEPENDENCIES |-> <<>>, calls |-> <<>>],
     UnnestedResponse |-> [class |-> "UnnestingResponseProcessor",
                           DEPENDENCIES |-> <<"ResponseStruct">>, calls |-> <<>>],
     ScoredTypedData |-> [class |-> "ScoredTypedData",
                          DEPENDENCIES |-> <<"UnnestedResponse">>,
                          calls |-> <<"UnnestedOptions">>]]

\* OutputFormat.FORMATS of formats.py: the PROCESSORS of every format
OutputFormats ==
    [concatenated |-> <<>>,
     typed |-> <<"DateTime", "UnnestedResponse">>,
     dictionary |-> <<"DataDictionary">>,
     options |-> <<"UnnestedOptions">>,
     scored |-> <<"ScoredTypedData">>]

\* the formats of the model: the five above and the formats a user can
\* define over the registered processors, none listed twice
ProducedFormats ==
    {[NAME |-> f, PROCESSORS |-> OutputFormats[f]] : f \in DOMAIN OutputFormats}
    \cup {[NAME |-> "user", PROCESSORS |-> ps] :
             ps \in {qs \in UNION {[1..n -> DOMAIN LegacyProcessors] :
                                       n \in 1..MaxChain} :
                        \A i, j \in DOMAIN qs : qs[i] = qs[j] => i = j}}

\* the call processor().process(report), before its first step
Call(name) ==
    [name |-> name, deps |-> LegacyProcessors[name].DEPENDENCIES,
     calls |-> LegacyProcessors[name].calls, running |-> FALSE]

Top == legacy.stack[Len(legacy.stack)]
Below == SubSeq(legacy.stack, 1, Len(legacy.stack) - 1)

(* Specification of one produce. *)

InitLegacy ==
    /\ \E f \in ProducedFormats :
           legacy = [pc |-> "produce", format |-> f.NAME, chain |-> f.PROCESSORS,
                     stack |-> <<>>, ran |-> <<>>]
    /\ MainIdle /\ WriterIdle
    /\ ParserIdle /\ OptionsIdle /\ ExpandIdle /\ ProcIdle /\ ChainIdle

\* OutputFormat.produce: data = processor().process(data) for the next
\* processor of PROCESSORS
OutputFormat_produce ==
    /\ legacy.pc = "produce" /\ legacy.stack = <<>> /\ legacy.chain # <<>>
    /\ legacy' = [legacy EXCEPT !.chain = Tail(legacy.chain),
                                !.stack = <<Call(Head(legacy.chain))>>]
    /\ UNCHANGED <<run_config, run, output, written>>
    /\ UNCHANGED reportVars

\* OutputFormat.produce: return self._format(data)
OutputFormat_format ==
    /\ legacy.pc = "produce" /\ legacy.stack = <<>> /\ legacy.chain = <<>>
    /\ legacy' = [legacy EXCEPT !.pc = "produced"]
    /\ UNCHANGED <<run_config, run, output, written>>
    /\ UNCHANGED reportVars

\* ReportProcessor.process: report = self.PROCESSORS[dep]().process(report)
\* for the next dependency
process_dependency ==
    /\ legacy.stack # <<>> /\ ~Top.running /\ Top.deps # <<>>
    /\ legacy' = [legacy EXCEPT !.stack =
                     Below \o <<[Top EXCEPT !.deps = Tail(Top.deps)],
                                Call(Head(Top.deps))>>]
    /\ UNCHANGED <<run_config, run, output, written>>
    /\ UNCHANGED reportVars

\* ReportProcessor.process: self._run(report) is entered
process_run ==
    /\ legacy.stack # <<>> /\ ~Top.running /\ Top.deps = <<>>
    /\ legacy' = [legacy EXCEPT !.stack = Below \o <<[Top EXCEPT !.running = TRUE]>>,
                                !.ran = Append(legacy.ran, Top.name)]
    /\ UNCHANGED <<run_config, run, output, written>>
    /\ UNCHANGED reportVars

\* ScoredTypedData._run: OptionsUnnestingProcessor().process(...)
ScoredTypedData_run ==
    /\ legacy.stack # <<>> /\ Top.running /\ Top.calls # <<>>
    /\ legacy' = [legacy EXCEPT !.stack =
                     Below \o <<[Top EXCEPT !.calls = Tail(Top.calls)],
                                Call(Head(Top.calls))>>]
    /\ UNCHANGED <<run_config, run, output, written>>
    /\ UNCHANGED reportVars

\* _run and with it process return
process_return ==
    /\ legacy.stack # <<>> /\ Top.running /\ Top.calls = <<>>
    /\ legacy' = [legacy EXCEPT !.stack = Below]
    /\ UNCHANGED <<run_config, run, output, written>>
    /\ UNCHANGED reportVars

NextLegacy ==
    \/ OutputFormat_produce
    \/ OutputFormat_format
    \/ process_dependency
    \/ process_run
    \/ ScoredTypedData_run
    \/ process_return

SpecLegacy == InitLegacy /\ [][NextLegacy]_vars

RECURSIVE DependenciesOf(_)
\* the declared dependencies of a processor, transitively
DependenciesOf(name) ==
    LET direct == {LegacyProcessors[name].DEPENDENCIES[i] :
                      i \in DOMAIN LegacyProcessors[name].DEPENDENCIES}
    IN  direct \cup UNION {DependenciesOf(d) : d \in direct}

\* in ran, every dependency of a processor is entered before the processor
DependenciesFirst(ran) ==
    \A j \in DOMAIN ran : \A d \in DependenciesOf(ran[j]) :
        \E i \in 1..(j - 1) : ran[i] = d

\* C25: when produce has run its chain, the _run of every dependency,
\* transitively, was entered before the _run of the processor declaring
\* it, and no processor's _run was entered more than once.
C25_DependenciesOnce ==
    legacy.pc = "produced" =>
        /\ DependenciesFirst(legacy.ran)
        /\ \A i, j \in DOMAIN legacy.ran :
               legacy.ran[i] = legacy.ran[j] => i = j

=============================================================================
